---- MODULE Spec2Model ----
(***************************************************************************)
(* Roadmap scheduling core of the Scheduler service                        *)
(* (src/src/services/gemini_service.py): the timeline parser, the phase    *)
(* allocator, the fallback task distributor and the daily-task generator   *)
(* with its clamp.                                                         *)
(*                                                                         *)
(* Text is a sequence of one-character strings; the en dash is the symbol  *)
(* "endash".  An Optional[int] is <<>> (None) or <<v>>.                    *)
(*                                                                         *)
(* The web layer (src/src/main.py, src/src/auth.py): approve_roadmap as    *)
(* the caller of the scheduling core, and the session, goal, roadmap and   *)
(* task endpoints over the tables of the database.                         *)
(***************************************************************************)
EXTENDS Integers, Sequences, FiniteSets, TLC

VARIABLES
    pc,           \* position of the running call
    phrase,       \* parser harness: the phrase the timeline text is written from
    timeline,     \* argument of _parse_timeline_to_days
    parse_result, \* its return value
    phases,       \* argument `phases`: records [timeline, tasks]
    total_days,   \* argument `total_days`
    parsed,       \* compute_phase_day_ranges: local `parsed`
    durations,    \* compute_phase_day_ranges: local `durations`
    diff,         \* compute_phase_day_ranges: local `diff`
    fix_i,        \* compute_phase_day_ranges: loop counter `i` of the rounding fix
    ranges,       \* returned list of (start_day, end_day, duration)
    response,     \* what the external generator answered
    daily_tasks,  \* returned list of daily tasks
    deadline,     \* approve_roadmap: days from today to goal.target_date, or None
    milestones,   \* approve_roadmap: the Milestone rows of the goal
    created,      \* approve_roadmap: the Task rows added by the call
    gen_ranges,   \* generate_daily_tasks_from_roadmap: local `phase_ranges`
    db_users,     \* table users: row k has id k
    db_goals,     \* table goals
    db_tasks,     \* table tasks
    cookies,      \* the session cookie each client holds
    signed_out,   \* history: the clients that logged out and did not log in since
    last,         \* the latest request and its response
    fb_phase_idx, \* _fallback_distribute_tasks: loop variable `phase_idx`
    fb_expanded,  \* _fallback_distribute_tasks: local `expanded`
    fb_idx,       \* _fallback_distribute_tasks: local `idx` of the fill loop
    gen_calls,    \* history: generator calls of the one call SpecGen and SpecApprove follow
    db_roadmaps,  \* table roadmaps
    db_milestones, \* table milestones
    db_audit,     \* table audit_logs, the rows with action "rescheduled"
    db_logs,      \* table recalibration_logs
    db_convs,     \* table conversation_history
    today         \* datetime.utcnow().date() as a day number

\* the variables of the scheduling core and of approve_roadmap
schedVars == <<pc, phrase, timeline, parse_result, phases, total_days, parsed,
               durations, diff, fix_i, ranges, response, daily_tasks, deadline,
               milestones, created, gen_ranges>>

webVars == <<deadline, milestones, created, gen_ranges, db_users, db_goals, db_tasks,
             cookies, signed_out, last>>

\* the locals of the fallback distributor's loops
fbVars == <<fb_phase_idx, fb_expanded, fb_idx>>

\* the tables around a roadmap, and the date
lifeVars == <<db_roadmaps, db_milestones, db_audit, db_logs, db_convs, today>>

restVars == <<fbVars, lifeVars>>

vars == <<pc, phrase, timeline, parse_result, phases, total_days, parsed,
          durations, diff, fix_i, ranges, response, daily_tasks, webVars, restVars,
          gen_calls>>

None == <<>>
Some(v) == <<v>>

Max(a, b) == IF a >= b THEN a ELSE b
Min(a, b) == IF a <= b THEN a ELSE b
Abs(a) == IF a >= 0 THEN a ELSE -a

RECURSIVE SumSeq(_)
SumSeq(s) == IF s = <<>> THEN 0 ELSE s[1] + SumSeq(Tail(s))

SetMin(S) == CHOOSE x \in S : \A y \in S : x <= y

(***************************************************************************)
(* Characters                                                              *)
(***************************************************************************)
DigitChars == <<"0", "1", "2", "3", "4", "5", "6", "7", "8", "9">>

IsDigit(c) == \E k \in 1..10 : DigitChars[k] = c

DigitVal(c) == (CHOOSE k \in 1..10 : DigitChars[k] = c) - 1

IsSpace(c) == c = " "

\* the character class [-(en dash)to] of the two range patterns
IsRangeSep(c) == c \in {"-", "endash", "t", "o"}

\* str.lower() on the letters the model writes
LowerChar(c) ==
    CASE c = "W" -> "w"
      [] c = "M" -> "m"
      [] c = "D" -> "d"
      [] c = "A" -> "a"
      [] OTHER -> c

Lower(s) == [k \in 1..Len(s) |-> LowerChar(s[k])]

RECURSIVE LStrip(_)
LStrip(s) == IF s # <<>> /\ IsSpace(s[1]) THEN LStrip(Tail(s)) ELSE s

RECURSIVE RStrip(_)
RStrip(s) ==
    IF s # <<>> /\ IsSpace(s[Len(s)]) THEN RStrip(SubSeq(s, 1, Len(s) - 1)) ELSE s

Strip(s) == RStrip(LStrip(s))

W_week == <<"w", "e", "e", "k">>
W_month == <<"m", "o", "n", "t", "h">>
W_day == <<"d", "a", "y">>

(***************************************************************************)
(* The regular expressions of _parse_timeline_to_days, as re.search runs   *)
(* them: leftmost match, greedy groups.                                    *)
(***************************************************************************)
\* index after the longest run of digits that starts at i  (\d+ / \d*)
RECURSIVE DigitsEnd(_, _)
DigitsEnd(s, i) == IF i <= Len(s) /\ IsDigit(s[i]) THEN DigitsEnd(s, i + 1) ELSE i

\* index after the longest run of blanks that starts at i  (\s*)
RECURSIVE SpacesEnd(_, _)
SpacesEnd(s, i) == IF i <= Len(s) /\ IsSpace(s[i]) THEN SpacesEnd(s, i + 1) ELSE i

\* index after the longest run of [-(en dash)to] that starts at i
RECURSIVE RangeSepEnd(_, _)
RangeSepEnd(s, i) ==
    IF i <= Len(s) /\ IsRangeSep(s[i]) THEN RangeSepEnd(s, i + 1) ELSE i

\* int(s[i..j-1])
RECURSIVE IntOf(_, _, _)
IntOf(s, i, j) == IF j <= i THEN 0 ELSE 10 * IntOf(s, i, j - 1) + DigitVal(s[j - 1])

\* the literal w stands at index i of s
HasAt(s, i, w) ==
    /\ i >= 1
    /\ i + Len(w) - 1 <= Len(s)
    /\ \A k \in 1..Len(w) : s[i + k - 1] = w[k]

\* index after `<w>s?` standing at i
UnitEnd(s, i, w) ==
    LET j == i + Len(w) IN IF j <= Len(s) /\ s[j] = "s" THEN j + 1 ELSE j

\* re.search(r'(\d+)\s*<w>s?', s): None or <<int(group 1)>>
SearchCountUnit(s, w) ==
    LET P == {i \in 1..Len(s) :
                /\ IsDigit(s[i])
                /\ HasAt(s, SpacesEnd(s, DigitsEnd(s, i)), w)}
    IN  IF P = {} THEN None
        ELSE LET i == SetMin(P) IN Some(IntOf(s, i, DigitsEnd(s, i)))

\* the groups of r'<w>s?\s*(\d+)\s*[-(en dash)to]+\s*(\d+)' matched at i, or None
RangeAt(s, i, w) ==
    IF ~HasAt(s, i, w) THEN None
    ELSE LET b == SpacesEnd(s, UnitEnd(s, i, w))
             c == DigitsEnd(s, b)
             d == SpacesEnd(s, c)
             e == RangeSepEnd(s, d)
             f == SpacesEnd(s, e)
             g == DigitsEnd(s, f)
         IN  IF c > b /\ e > d /\ g > f
             THEN <<IntOf(s, b, c), IntOf(s, f, g)>>
             ELSE None

\* re.search of the range pattern: None or <<int(group 1), int(group 2)>>
SearchUnitRange(s, w) ==
    LET P == {i \in 1..Len(s) : RangeAt(s, i, w) # None}
    IN  IF P = {} THEN None ELSE RangeAt(s, SetMin(P), w)

\* re.search(r'<w>s?\s*(\d+)$', s) matches
SearchUnitTrailing(s, w) ==
    \E i \in 1..Len(s) :
        /\ HasAt(s, i, w)
        /\ LET b == SpacesEnd(s, UnitEnd(s, i, w))
           IN  b <= Len(s) /\ IsDigit(s[b]) /\ DigitsEnd(s, b) = Len(s) + 1

DaysPerWeek == 7
DaysPerMonth == 30

\* as ParseTimelineToDays, with the day pattern tried before the week and month ones
ParseTimelineToDays_DaysFirst(tl) ==
    IF tl = <<>> THEN None
    ELSE LET text == Strip(Lower(tl))
             m1 == SearchCountUnit(text, W_week)
             m2 == SearchUnitRange(text, W_week)
             m4 == SearchCountUnit(text, W_month)
             m5 == SearchUnitRange(text, W_month)
             m7 == SearchCountUnit(text, W_day)
         IN  IF m7 # None THEN Some(m7[1])
             ELSE IF m1 # None THEN Some(m1[1] * DaysPerWeek)
             ELSE IF m2 # None THEN Some((m2[2] - m2[1] + 1) * DaysPerWeek)
             ELSE IF SearchUnitTrailing(text, W_week) THEN Some(DaysPerWeek)
             ELSE IF m4 # None THEN Some(m4[1] * DaysPerMonth)
             ELSE IF m5 # None THEN Some((m5[2] - m5[1] + 1) * DaysPerMonth)
             ELSE IF SearchUnitTrailing(text, W_month) THEN Some(DaysPerMonth)
             ELSE None

ParseTimelineToDays(tl) ==
    IF tl = <<>> THEN None
    ELSE LET text == Strip(Lower(tl))
             m1 == SearchCountUnit(text, W_week)
             m2 == SearchUnitRange(text, W_week)
             m4 == SearchCountUnit(text, W_month)
             m5 == SearchUnitRange(text, W_month)
             m7 == SearchCountUnit(text, W_day)
         IN  IF m1 # None THEN Some(m1[1] * DaysPerWeek)
             ELSE IF m2 # None THEN Some((m2[2] - m2[1] + 1) * DaysPerWeek)
             ELSE IF SearchUnitTrailing(text, W_week) THEN Some(DaysPerWeek)
             ELSE IF m4 # None THEN Some(m4[1] * DaysPerMonth)
             ELSE IF m5 # None THEN Some((m5[2] - m5[1] + 1) * DaysPerMonth)
             ELSE IF SearchUnitTrailing(text, W_month) THEN Some(DaysPerMonth)
             ELSE IF m7 # None THEN Some(m7[1])
             ELSE None

(***************************************************************************)
(* compute_phase_day_ranges                                                *)
(***************************************************************************)
\* parsed = [_parse_timeline_to_days(p.get('timeline', '')) for p in phases]
ParsedOf(ph) == [k \in 1..Len(ph) |-> ParseTimelineToDays(ph[k].timeline)]

RECURSIVE KnownTotal(_)
KnownTotal(p) ==
    IF p = <<>> THEN 0
    ELSE (IF p[1] # None THEN p[1][1] ELSE 0) + KnownTotal(Tail(p))

UnknownCount(p) == Cardinality({k \in 1..Len(p) : p[k] = None})

\* as InitialDurations, with `i <= remainder` in the even split
InitialDurations_Inclusive(p, total) ==
    LET n == Len(p)
        known_total == KnownTotal(p)
        unknown_count == UnknownCount(p)
    IN  IF unknown_count = n
        THEN LET base == total \div n
                 remainder == total % n
             IN  [k \in 1..n |-> base + (IF k - 1 <= remainder THEN 1 ELSE 0)]
        ELSE IF unknown_count > 0
        THEN LET leftover == Max(total - known_total, unknown_count)
                 per_unknown == leftover \div unknown_count
                 extra == leftover % unknown_count
             IN  [k \in 1..n |->
                    IF p[k] # None THEN p[k][1]
                    ELSE per_unknown + (IF k - 1 < extra THEN 1 ELSE 0)]
        ELSE [k \in 1..n |-> p[k][1]]

\* the durations before the fit; list index i of the code is k - 1
InitialDurations(p, total) ==
    LET n == Len(p)
        known_total == KnownTotal(p)
        unknown_count == UnknownCount(p)
    IN  IF unknown_count = n
        THEN LET base == total \div n
                 remainder == total % n
             IN  [k \in 1..n |-> base + (IF k - 1 < remainder THEN 1 ELSE 0)]
        ELSE IF unknown_count > 0
        THEN LET leftover == Max(total - known_total, unknown_count)
                 per_unknown == leftover \div unknown_count
                 extra == leftover % unknown_count
             IN  [k \in 1..n |->
                    IF p[k] # None THEN p[k][1]
                    ELSE per_unknown + (IF k - 1 < extra THEN 1 ELSE 0)]
        ELSE [k \in 1..n |-> p[k][1]]

\* int(round(num / den)) for den > 0: Python rounds a tie to the even neighbour.
\* The code rounds the double d * (total_days / dur_sum); on the inputs of this
\* model the double product lies on the same side of every tie as the exact
\* quotient, so the exact quotient is rounded here.
RoundHalfEven(num, den) ==
    LET q == num \div den
        r == num % den
    IN  IF 2 * r < den THEN q
        ELSE IF 2 * r > den THEN q + 1
        ELSE IF q % 2 = 0 THEN q ELSE q + 1

\* durations = [max(int(round(d * scale)), 1) for d in durations]
ScaledDurations(durs, total) ==
    LET dur_sum == SumSeq(durs)
    IN  [k \in 1..Len(durs) |-> Max(RoundHalfEven(durs[k] * total, dur_sum), 1)]

NeedsScaling(durs, total) == SumSeq(durs) # total /\ SumSeq(durs) > 0

\* as FixStep, without `durations[idx] = max(durations[idx], 1)`
FixStep_NoFloor(durs, df, i) ==
    LET idx == (i % Len(durs)) + 1
    IN  [durs EXCEPT ![idx] = @ + (IF df > 0 THEN 1 ELSE -1)]

\* one pass of the body of `for i in range(abs(diff))`
FixStep(durs, df, i) ==
    LET idx == (i % Len(durs)) + 1
    IN  [durs EXCEPT ![idx] = Max(@ + (IF df > 0 THEN 1 ELSE -1), 1)]

RECURSIVE FixLoop(_, _, _)
FixLoop(durs, df, i) ==
    IF i >= Abs(df) THEN durs ELSE FixLoop(FixStep(durs, df, i), df, i + 1)

FitDurations(durs, total) ==
    IF NeedsScaling(durs, total)
    THEN LET scaled == ScaledDurations(durs, total)
         IN  FixLoop(scaled, total - SumSeq(scaled), 0)
    ELSE durs

\* as RangesFrom, with `current` advanced by the duration before `dur = max(dur, 1)`
RECURSIVE RangesFrom_NoFloor(_, _)
RangesFrom_NoFloor(durs, current) ==
    IF durs = <<>> THEN <<>>
    ELSE LET dur == Max(durs[1], 1)
         IN  <<[start_day |-> current, end_day |-> current + dur - 1, duration |-> dur]>>
             \o RangesFrom_NoFloor(Tail(durs), current + durs[1])

\* the loop that turns durations into (start_day, end_day, duration)
RECURSIVE RangesFrom(_, _)
RangesFrom(durs, current) ==
    IF durs = <<>> THEN <<>>
    ELSE LET dur == Max(durs[1], 1)
         IN  <<[start_day |-> current, end_day |-> current + dur - 1, duration |-> dur]>>
             \o RangesFrom(Tail(durs), current + dur)

ToRanges(durs) == RangesFrom(durs, 1)

ComputePhaseDayRanges(ph, total) ==
    IF Len(ph) = 0 THEN <<>>
    ELSE ToRanges(FitDurations(InitialDurations(ParsedOf(ph), total), total))

(***************************************************************************)
(* _fallback_distribute_tasks                                              *)
(* An expanded entry is <<title, description, priority>>; a title is       *)
(* <<label, task_text>>, with the label "" for an unframed task.           *)
(***************************************************************************)
Actions == <<<<"Study: ", 5>>, <<"Practice: ", 4>>, <<"Review: ", 3>>>>

\* phase_ranges[phase_idx] if phase_idx < len(phase_ranges) else (1, total_days, total_days)
RangeOf(rngs, phase_idx, total) ==
    IF phase_idx < Len(rngs) THEN rngs[phase_idx + 1]
    ELSE [start_day |-> 1, end_day |-> total, duration |-> total]

\* as FrameLoop, without the two `if len(expanded) >= target_count: break`
RECURSIVE FrameLoop_NoBreak(_, _, _, _, _)
FrameLoop_NoBreak(phase_tasks, target_count, t, a, expanded) ==
    IF t > Len(phase_tasks) THEN expanded
    ELSE LET task_text == phase_tasks[t]
             grown == Append(expanded,
                             <<<<Actions[a][1], task_text>>, task_text, Actions[a][2]>>)
         IN  IF a < Len(Actions)
             THEN FrameLoop_NoBreak(phase_tasks, target_count, t, a + 1, grown)
             ELSE FrameLoop_NoBreak(phase_tasks, target_count, t + 1, 1, grown)

\* the nested `for task_text / for label, prio` loops with their two breaks;
\* t and a are the 1-based positions in phase_tasks and actions
RECURSIVE FrameLoop(_, _, _, _, _)
FrameLoop(phase_tasks, target_count, t, a, expanded) ==
    IF t > Len(phase_tasks) THEN expanded
    ELSE LET task_text == phase_tasks[t]
             grown == Append(expanded,
                             <<<<Actions[a][1], task_text>>, task_text, Actions[a][2]>>)
         IN  IF Len(grown) >= target_count THEN grown
             ELSE IF a < Len(Actions)
             THEN FrameLoop(phase_tasks, target_count, t, a + 1, grown)
             ELSE FrameLoop(phase_tasks, target_count, t + 1, 1, grown)

\* as FillLoop, taking the first authored task every time
RECURSIVE FillLoop_NoCycle(_, _, _, _)
FillLoop_NoCycle(phase_tasks, target_count, idx, expanded) ==
    IF ~(Len(expanded) < target_count /\ phase_tasks # <<>>) THEN expanded
    ELSE LET task_text == phase_tasks[1]
             grown == Append(expanded, <<<<"Continue: ", task_text>>, task_text, 3>>)
         IN  IF idx + 1 > target_count * 2 THEN grown
             ELSE FillLoop_NoCycle(phase_tasks, target_count, idx + 1, grown)

\* the `while len(expanded) < target_count and phase_tasks` loop
RECURSIVE FillLoop(_, _, _, _)
FillLoop(phase_tasks, target_count, idx, expanded) ==
    IF ~(Len(expanded) < target_count /\ phase_tasks # <<>>) THEN expanded
    ELSE LET task_text == phase_tasks[(idx % Len(phase_tasks)) + 1]
             grown == Append(expanded, <<<<"Continue: ", task_text>>, task_text, 3>>)
         IN  IF idx + 1 > target_count * 2 THEN grown
             ELSE FillLoop(phase_tasks, target_count, idx + 1, grown)

\* as TargetCount, aiming at one task per day
TargetCount_OnePerDay(phase_tasks, dur) == Max(dur, Len(phase_tasks))

TargetCount(phase_tasks, dur) == Max(dur * 2, Len(phase_tasks))

\* as Expanded, with the priority 5 - j of an unexpanded task not held at 1
Expanded_NoMax(phase_tasks, dur) ==
    LET target_count == TargetCount(phase_tasks, dur)
    IN  IF Len(phase_tasks) < target_count
        THEN FillLoop(phase_tasks, target_count, 0,
                      FrameLoop(phase_tasks, target_count, 1, 1, <<>>))
        ELSE [k \in 1..Len(phase_tasks) |->
                <<<<"", phase_tasks[k]>>, phase_tasks[k], 5 - (k - 1)>>]

Expanded(phase_tasks, dur) ==
    LET target_count == TargetCount(phase_tasks, dur)
    IN  IF Len(phase_tasks) < target_count
        THEN FillLoop(phase_tasks, target_count, 0,
                      FrameLoop(phase_tasks, target_count, 1, 1, <<>>))
        ELSE [k \in 1..Len(phase_tasks) |->
                <<<<"", phase_tasks[k]>>, phase_tasks[k], Max(5 - (k - 1), 1)>>]

\* as DistributePhase, with the position counted from 1
DistributePhase_FromOne(phase_idx, phase_tasks, rng) ==
    LET expanded == Expanded(phase_tasks, rng.duration)
    IN  [k \in 1..Len(expanded) |->
            LET task_day == rng.start_day + ((k * rng.duration) \div Len(expanded))
            IN  [day |-> Some(Max(rng.start_day, Min(task_day, rng.end_day))),
                 phase_index |-> Some(phase_idx),
                 title |-> expanded[k][1],
                 description |-> expanded[k][2],
                 priority |-> expanded[k][3]]]

\* the daily tasks of one phase; position j of the code is k - 1
DistributePhase(phase_idx, phase_tasks, rng) ==
    LET expanded == Expanded(phase_tasks, rng.duration)
    IN  [k \in 1..Len(expanded) |->
            LET task_day == rng.start_day + (((k - 1) * rng.duration) \div Len(expanded))
            IN  [day |-> Some(Max(rng.start_day, Min(task_day, rng.end_day))),
                 phase_index |-> Some(phase_idx),
                 title |-> expanded[k][1],
                 description |-> expanded[k][2],
                 priority |-> expanded[k][3]]]

\* one pass of the body of the `while` loop: the appended "Continue: " entry
FillOnce(phase_tasks, idx, expanded) ==
    LET task_text == phase_tasks[(idx % Len(phase_tasks)) + 1]
    IN  Append(expanded, <<<<"Continue: ", task_text>>, task_text, 3>>)

\* the `for j, (title, desc, prio) in enumerate(expanded)` loop over a given
\* expanded list
Spread(phase_idx, expanded, rng) ==
    [k \in 1..Len(expanded) |->
        LET task_day == rng.start_day + (((k - 1) * rng.duration) \div Len(expanded))
        IN  [day |-> Some(Max(rng.start_day, Min(task_day, rng.end_day))),
             phase_index |-> Some(phase_idx),
             title |-> expanded[k][1],
             description |-> expanded[k][2],
             priority |-> expanded[k][3]]]

\* `for phase_idx, phase in enumerate(phases)`, from 0-based phase_idx on
RECURSIVE FallbackFrom(_, _, _, _)
FallbackFrom(ph, total, rngs, phase_idx) ==
    IF phase_idx >= Len(ph) THEN <<>>
    ELSE (IF ph[phase_idx + 1].tasks = <<>> THEN <<>>
          ELSE DistributePhase(phase_idx, ph[phase_idx + 1].tasks,
                               RangeOf(rngs, phase_idx, total)))
         \o FallbackFrom(ph, total, rngs, phase_idx + 1)

\* rngs = None stands for phase_ranges=None
FallbackDistributeTasks(ph, total, rngs) ==
    IF ph = <<>> THEN <<>>
    ELSE FallbackFrom(ph, total,
                      IF rngs = None THEN ComputePhaseDayRanges(ph, total) ELSE rngs, 0)

(***************************************************************************)
(* generate_daily_tasks_from_roadmap: the clamp of the generator's items   *)
(* A generator item is [day, phase_index], each None when the key is       *)
(* missing; the other keys pass through untouched.                         *)
(***************************************************************************)
\* as ClampItem, with max(s, day) in place of max(s, min(day, e))
ClampItem_NoUpper(t, rngs) ==
    LET pi == IF t.phase_index = None THEN 0 ELSE t.phase_index[1]
    IN  IF 0 <= pi /\ pi < Len(rngs)
        THEN LET s == rngs[pi + 1].start_day
                 d == IF t.day = None THEN s ELSE t.day[1]
             IN  [t EXCEPT !.day = Some(Max(s, d))]
        ELSE t

\* the body of `for t in tasks`
ClampItem(t, rngs) ==
    LET pi == IF t.phase_index = None THEN 0 ELSE t.phase_index[1]
    IN  IF 0 <= pi /\ pi < Len(rngs)
        THEN LET s == rngs[pi + 1].start_day
                 e == rngs[pi + 1].end_day
                 d == IF t.day = None THEN s ELSE t.day[1]
             IN  [t EXCEPT !.day = Some(Max(s, Min(d, e)))]
        ELSE t

ClampTasks(tasks, rngs) == [k \in 1..Len(tasks) |-> ClampItem(tasks[k], rngs)]

(***************************************************************************)
(* approve_roadmap (src/src/main.py): the day budget, the milestones, the  *)
(* generator call with its except branch, and the Task rows                *)
(***************************************************************************)
\* as TotalDaysFor, without max(.., len(phases))
TotalDaysFor_NoMax(d, n) == IF d # None THEN d[1] ELSE n * 7

\* d is (goal.target_date.date() - today).days, None without a target_date
TotalDaysFor(d, n) == IF d # None THEN Max(d[1], n) ELSE n * 7

\* one Milestone row per phase; target_day is the day number of target_date
MilestonesFor(ph, rngs, total) ==
    [k \in 1..Len(ph) |->
        [order_index |-> k - 1,
         target_day |-> RangeOf(rngs, k - 1, total).end_day,
         status |-> IF k - 1 = 0 THEN "in_progress" ELSE "pending"]]

\* `today + timedelta(days=day_num - 1)` raises OverflowError outside
\* date.min..date.max (years 1..9999).  The two distances are taken larger
\* than they are for any today from 2000 to 2100, so a day the model calls
\* out of range is out of range for every such today.
DaysToDateMax == (9999 - 2000) * 366
DaysFromDateMin == 2100 * 366

DateInRange(day_num) ==
    /\ day_num - 1 <= DaysToDateMax
    /\ day_num - 1 >= 0 - DaysFromDateMin

\* a day number past date.max
BigDay == DaysToDateMax + 2

\* task_data.get("day", 1)
DayNum(t) == IF t.day = None THEN 1 ELSE t.day[1]

\* task_data.get("phase_index", 0)
PhaseIdx(t) == IF t.phase_index = None THEN 0 ELSE t.phase_index[1]

\* milestone_map.get(phase_idx, list(milestone_map.values())[0]).order_index
MilestoneOf(t, ms) ==
    IF PhaseIdx(t) >= 0 /\ PhaseIdx(t) < Len(ms) THEN ms[PhaseIdx(t) + 1].order_index
    ELSE ms[1].order_index

\* min(max(task_data.get("priority", 3), 1), 5); a record without the field
\* is a dict without the key
PriorityOf(t) ==
    Min(Max(IF "priority" \in DOMAIN t THEN t.priority ELSE 3, 1), 5)

\* the Task rows of `for task_data in daily_tasks`
CreateTasks(tasks, ms) ==
    [k \in 1..Len(tasks) |->
        [milestone |-> MilestoneOf(tasks[k], ms),
         day |-> DayNum(tasks[k]),
         priority |-> PriorityOf(tasks[k]),
         status |-> 0]]

\* what generate_daily_tasks_from_roadmap does with the generator's answer:
\* it raises when the call raised or when "daily_tasks" holds something whose
\* elements are not dicts; it falls back without a usable dict; otherwise it
\* clamps the list, an empty one too; phase_ranges is its local, computed
\* before the call
GenerateDailyTasks(ph, total, phase_ranges, resp) ==
    IF resp.kind \in {"raise", "not_records"}
    THEN [raised |-> TRUE, tasks |-> <<>>]
    ELSE IF resp.kind \in {"no_json", "no_daily_tasks"}
    THEN [raised |-> FALSE, tasks |-> FallbackDistributeTasks(ph, total, phase_ranges)]
    ELSE [raised |-> FALSE, tasks |-> ClampTasks(resp.items, phase_ranges)]

\* as GeneratorCalls, with a second call after an exception
GeneratorCalls_Retry(resp) == IF resp.kind = "raise" THEN 2 ELSE 1

\* how often generate_daily_tasks_from_roadmap calls model.generate_content:
\* once, whatever the call answers
GeneratorCalls(resp) == 1

\* as DailyTasksFor, with the except branch returning no tasks
DailyTasksFor_NoExcept(ph, total, rngs, phase_ranges, resp) ==
    LET out == GenerateDailyTasks(ph, total, phase_ranges, resp)
    IN  IF out.raised THEN <<>> ELSE out.tasks

\* the try/except around the generator call; rngs is approve_roadmap's
\* phase_ranges, phase_ranges the generator function's own
DailyTasksFor(ph, total, rngs, phase_ranges, resp) ==
    LET out == GenerateDailyTasks(ph, total, phase_ranges, resp)
    IN  IF out.raised THEN FallbackDistributeTasks(ph, total, rngs) ELSE out.tasks

(***************************************************************************)
(* Session cookies (src/src/auth.py).  A cookie `payload.sig` is the       *)
(* record [payload, sig]; the payload json {"uid": n} is [uid |-> <<n>>],  *)
(* a json object without "uid" is [uid |-> <<>>]; an HMAC is the pair of   *)
(* the key and the message it was computed from.                           *)
(***************************************************************************)
SECRET_KEY == "SECRET_KEY"

Hmac(key, msg) == [key |-> key, msg |-> msg]

\* _sign
Sign(payload) == [payload |-> payload, sig |-> Hmac(SECRET_KEY, payload)]

\* as Unsign, without the comparison of the signature
Unsign_NoCompare(cookie) == Some(cookie.payload)

\* _unsign: the payload, or None when the signature is not the expected one
Unsign(cookie) ==
    IF cookie.sig # Hmac(SECRET_KEY, cookie.payload) THEN None
    ELSE Some(cookie.payload)

\* create_session_value
CreateSessionValue(user_id) == Sign([uid |-> Some(user_id)])

\* read_session_value: data.get("uid")
ReadSessionValue(cookie) ==
    LET payload == Unsign(cookie)
    IN  IF payload = None THEN None ELSE payload[1].uid

\* get_current_user: the id of the user, 0 where the code raises 401; ck is
\* the cookie of the request, None without one
GetCurrentUser(ck, users) ==
    IF ck = None THEN 0
    ELSE LET user_id == ReadSessionValue(ck[1])
         IN  IF user_id = None THEN 0
             ELSE IF user_id[1] < 1 \/ user_id[1] > Len(users) THEN 0
             ELSE IF ~users[user_id[1]].is_active THEN 0
             ELSE user_id[1]

(***************************************************************************)
(* The tables.  users is a sequence, the id of a row is its position;      *)
(* goals and tasks are sets of rows, a new row gets the id after the       *)
(* largest one in the table.                                               *)
(***************************************************************************)
\* as ClearedJar, with the cookie left in the jar
ClearedJar_Keep(jar, c) == jar

\* response.delete_cookie(COOKIE_NAME) as the client's jar takes it
ClearedJar(jar, c) == [jar EXCEPT ![c] = None]

\* as PhoneOf, without the strip
PhoneOf_NoStrip(raw) == raw

\* credentials.phone.strip()
PhoneOf(raw) == Strip(raw)

\* User(phone=phone): a new user is active
NewUser(phone) == [phone |-> phone, is_active |-> TRUE]

\* db.query(User).filter(User.phone == phone).first(): the id, 0 for None
UserByPhone(users, phone) ==
    IF \E k \in 1..Len(users) : users[k].phone = phone
    THEN SetMin({k \in 1..Len(users) : users[k].phone = phone})
    ELSE 0

SetMax(S) == CHOOSE x \in S : \A y \in S : x >= y

NextId(rows) == IF rows = {} THEN 1 ELSE SetMax({r.id : r \in rows}) + 1

\* the ids of a set of rows in ascending order
RECURSIVE IdsOf(_)
IdsOf(rows) ==
    IF rows = {} THEN <<>>
    ELSE LET first == SetMin({r.id : r \in rows})
         IN  <<first>> \o IdsOf({r \in rows : r.id # first})

\* as OwnedBy, without the filter on user_id
OwnedBy_NoFilter(rows, user_id) == rows

\* .filter(X.user_id == current_user.id)
OwnedBy(rows, user_id) == {r \in rows : r.user_id = user_id}

\* _get_user_goal, _get_user_task: the row in a set, the empty set for 404
UserRow(rows, row_id, user_id) ==
    {r \in rows : r.id = row_id /\ r.user_id = user_id}

\* as UpdatedTask, without completed_date
UpdatedTask_NoDate(task, new_status) ==
    IF new_status # None /\ new_status[1] # task.status
    THEN [task EXCEPT !.status = new_status[1]]
    ELSE task

\* update_task on the status; completed stands for completed_date not null
UpdatedTask(task, new_status) ==
    IF new_status # None /\ new_status[1] # task.status
    THEN [task EXCEPT !.status = new_status[1],
                      !.completed = IF new_status[1] = 1 THEN TRUE ELSE @]
    ELSE task

\* as OverdueTasks, without the filter on the status
OverdueTasks_AnyStatus(tasks, user_id, day) ==
    {t \in tasks : /\ t.user_id = user_id
                   /\ t.scheduled_date # None
                   /\ t.scheduled_date[1] < day}

\* get_today_tasks: Task.user_id == current_user.id, Task.scheduled_date <
\* today_start, Task.status == 0; a NULL scheduled_date compares as unknown
OverdueTasks(tasks, user_id, day) ==
    {t \in tasks : /\ t.user_id = user_id
                   /\ t.scheduled_date # None
                   /\ t.scheduled_date[1] < day
                   /\ t.status = 0}

\* how many rows of a set have a smaller id
RankIn(rows, row) == Cardinality({r \in rows : r.id < row.id})

\* the AuditLog rows get_today_tasks adds, one for each overdue task
RescheduledRows(audit, overdue) ==
    {[id |-> NextId(audit) + RankIn(overdue, t), task_id |-> t.id,
      action |-> "rescheduled"] : t \in overdue}

\* the tasks of today's list: scheduled_date in [today_start, today_end)
TodaysTasks(tasks, user_id, day) ==
    {t \in tasks : /\ t.user_id = user_id
                   /\ t.scheduled_date = Some(day)}

\* get_overview_stats: goals total and active, tasks total, completed, missed
OverviewStats(goals, tasks, user_id) ==
    <<Cardinality(OwnedBy(goals, user_id)),
      Cardinality({g \in OwnedBy(goals, user_id) : g.status = "active"}),
      Cardinality(OwnedBy(tasks, user_id)),
      Cardinality({t \in OwnedBy(tasks, user_id) : t.status = 1}),
      Cardinality({t \in OwnedBy(tasks, user_id) : t.status = 0 - 1})>>

(***************************************************************************)
(* Bounds of the instances                                                 *)
(***************************************************************************)
MaxParts == 2       \* parts of a timeline phrase
MaxPhases == 3      \* phases of an allocator call
MaxDays == 10       \* total_days of an allocator call
MaxFbPhases == 2    \* phases of a fallback call
MaxFbDays == 4      \* total_days of a fallback call
MaxTasks == 6       \* authored tasks of a phase
MaxGenPhases == 2   \* phases of a generator call
MaxGenDays == 3     \* total_days of a generator call
MaxItems == 1       \* items of a generator answer
MaxTodayTasks == 2  \* rows of the tasks table of SpecToday
MaxDaysPassed == 1  \* days that pass in SpecToday
MaxMilestoneId == 4 \* largest id of the milestones table of SpecLife
MaxTaskId == 6      \* largest id of the tasks table of SpecLife
MaxGoals == 1       \* rows of the goals table
MaxApiTasks == 1    \* rows of the tasks table

\* all sequences over S of length 0..n
SeqsUpTo(S, n) == UNION {[1..k -> S] : k \in 0..n}

(***************************************************************************)
(* Timeline phrases for the parser.  A phrase is a list of parts written   *)
(* in one style and joined by ", ":                                        *)
(*   count  "<a> <unit>"      range  "<unit> <a>-<b>"                      *)
(*   single "<unit> <a>"      other  "asap"                                *)
(***************************************************************************)
Units == {"week", "month", "day"}
Nums == {1, 2, 3, 12}
RangePairs == {<<1, 2>>, <<2, 12>>, <<3, 1>>}

Parts ==
    [kind : {"count"}, unit : Units, a : Nums, b : {0}]
    \cup {[kind |-> "range", unit |-> u, a |-> ab[1], b |-> ab[2]] :
            u \in Units, ab \in RangePairs}
    \cup [kind : {"single"}, unit : Units, a : {1}, b : {0}]
    \cup {[kind |-> "other", unit |-> "day", a |-> 0, b |-> 0]}

Styles == [caps : BOOLEAN, plural : BOOLEAN, spaced : BOOLEAN, dash : {"-", "endash"}]

Phrases == [parts : SeqsUpTo(Parts, MaxParts), style : Styles]

\* str(n) for n >= 0
RECURSIVE NumToStr(_)
NumToStr(n) ==
    IF n < 10 THEN <<DigitChars[n + 1]>>
    ELSE NumToStr(n \div 10) \o <<DigitChars[(n % 10) + 1]>>

UnitWord(unit, style) ==
    LET w == CASE unit = "week" -> <<(IF style.caps THEN "W" ELSE "w"), "e", "e", "k">>
               [] unit = "month" -> <<(IF style.caps THEN "M" ELSE "m"), "o", "n", "t", "h">>
               [] OTHER -> <<(IF style.caps THEN "D" ELSE "d"), "a", "y">>
    IN  IF style.plural THEN Append(w, "s") ELSE w

Blank(style) == IF style.spaced THEN <<" ">> ELSE <<>>

RenderPart(part, style) ==
    CASE part.kind = "count" ->
            NumToStr(part.a) \o Blank(style) \o UnitWord(part.unit, style)
      [] part.kind = "range" ->
            UnitWord(part.unit, style) \o Blank(style) \o NumToStr(part.a)
            \o Blank(style) \o <<style.dash>> \o Blank(style) \o NumToStr(part.b)
      [] part.kind = "single" ->
            UnitWord(part.unit, style) \o Blank(style) \o NumToStr(part.a)
      [] OTHER -> <<(IF style.caps THEN "A" ELSE "a"), "s", "a", "p">>

RECURSIVE RenderParts(_, _)
RenderParts(parts, style) ==
    IF parts = <<>> THEN <<>>
    ELSE IF Len(parts) = 1 THEN RenderPart(parts[1], style)
    ELSE RenderPart(parts[1], style) \o <<",", " ">> \o RenderParts(Tail(parts), style)

\* the text of a phrase; a spaced style also pads both ends with a blank
Render(ph) ==
    IF ph.parts = <<>> THEN <<>>
    ELSE Blank(ph.style) \o RenderParts(ph.parts, ph.style) \o Blank(ph.style)

(***************************************************************************)
(* Inputs of the allocator, the fallback and the generator calls           *)
(***************************************************************************)
T_missing == <<>>
T_asap == <<"a", "s", "a", "p">>
T_1day == <<"1", " ", "d", "a", "y">>
T_2days == <<"2", " ", "D", "a", "y", "s">>
T_3days == <<"3", " ", "D", "a", "y", "s">>
T_1week == <<"1", " ", "W", "e", "e", "k">>
T_0days == <<"0", " ", "d", "a", "y", "s">>
T_week31 == <<"W", "e", "e", "k", " ", "3", "-", "1">>

AllocTimelines == {T_missing, T_asap, T_1day, T_3days, T_1week, T_0days, T_week31}

\* the authored task list of m tasks: the task texts are 1..m
TaskList(m) == [k \in 1..m |-> k]

AllocPhases == [timeline : AllocTimelines, tasks : {<<>>}]

FbPhases == [timeline : {T_missing, T_2days}, tasks : {TaskList(m) : m \in 0..MaxTasks}]

GenPhases ==
    {[timeline |-> T_missing, tasks |-> <<>>],
     [timeline |-> T_2days, tasks |-> TaskList(1)],
     [timeline |-> T_asap, tasks |-> TaskList(2)]}

Optional(S) == {None} \cup {Some(v) : v \in S}

\* what the generator can put into one item for a call with n phases
GenItems(n) ==
    [day : Optional(0..(MaxGenDays + 1)), phase_index : Optional((0 - 1)..n)]

NoPhrase == [parts |-> <<>>, style |-> [caps |-> FALSE, plural |-> FALSE,
                                        spaced |-> FALSE, dash |-> "-"]]
NoResponse == [kind |-> "none", items |-> <<>>]

\* no request was made.  A request is recorded with the client that sent it,
\* the cookie it carried, the user it was authenticated as (0: none), its
\* arguments and the status and body of the response; the body is a tuple of
\* integers.
NoRequest ==
    [op |-> "none", client |-> 0, cookie |-> None, user |-> 0, arg |-> <<>>,
     status |-> 0, body |-> <<>>]

\* no stepwise fallback call, no generator call yet, nothing in the tables
\* around a roadmap
RestIdle ==
    /\ fb_phase_idx = 0
    /\ fb_expanded = <<>>
    /\ fb_idx = 0
    /\ gen_calls = 0
    /\ db_roadmaps = {}
    /\ db_milestones = {}
    /\ db_audit = {}
    /\ db_logs = {}
    /\ db_convs = {}
    /\ today = 0

\* no session, goal or task endpoint is involved
ApiIdle ==
    /\ db_users = <<>>
    /\ db_goals = <<>>
    /\ db_tasks = <<>>
    /\ cookies = <<>>
    /\ signed_out = {}

\* the web layer at rest, for the calls of the scheduling core alone
WebIdle ==
    /\ deadline = None
    /\ milestones = <<>>
    /\ created = <<>>
    /\ gen_ranges = <<>>
    /\ last = NoRequest
    /\ ApiIdle
    /\ RestIdle

(***************************************************************************)
(* SpecParse: one call of _parse_timeline_to_days                          *)
(***************************************************************************)
InitParse ==
    /\ phrase \in Phrases
    /\ timeline = Render(phrase)
    /\ pc = "parse_call"
    /\ parse_result = None
    /\ phases = <<>>
    /\ total_days = 0
    /\ parsed = <<>>
    /\ durations = <<>>
    /\ diff = 0
    /\ fix_i = 0
    /\ ranges = <<>>
    /\ response = NoResponse
    /\ daily_tasks = <<>>
    /\ WebIdle

ParseCall ==
    /\ pc = "parse_call"
    /\ parse_result' = ParseTimelineToDays(timeline)
    /\ pc' = "parse_done"
    /\ UNCHANGED <<phrase, timeline, phases, total_days, parsed, durations, diff,
                   fix_i, ranges, response, daily_tasks>>
    /\ UNCHANGED <<webVars, restVars, gen_calls>>

NextParse == ParseCall

SpecParse == InitParse /\ [][NextParse]_vars

(***************************************************************************)
(* Spec: one call of compute_phase_day_ranges, the rounding fix step by    *)
(* step                                                                    *)
(***************************************************************************)
Init ==
    /\ phases \in SeqsUpTo(AllocPhases, MaxPhases)
    /\ total_days \in (0 - 1)..MaxDays
    /\ pc = "alloc_call"
    /\ phrase = NoPhrase
    /\ timeline = <<>>
    /\ parse_result = None
    /\ parsed = <<>>
    /\ durations = <<>>
    /\ diff = 0
    /\ fix_i = 0
    /\ ranges = <<>>
    /\ response = NoResponse
    /\ daily_tasks = <<>>
    /\ WebIdle

\* n == 0: return []
AllocEmpty ==
    /\ pc = "alloc_call"
    /\ Len(phases) = 0
    /\ ranges' = <<>>
    /\ pc' = "alloc_done"
    /\ UNCHANGED <<phrase, timeline, parse_result, phases, total_days, parsed,
                   durations, diff, fix_i, response, daily_tasks>>
    /\ UNCHANGED <<webVars, restVars, gen_calls>>

\* parse the timelines and split total_days
AllocSplit ==
    /\ pc = "alloc_call"
    /\ Len(phases) > 0
    /\ parsed' = ParsedOf(phases)
    /\ durations' = InitialDurations(ParsedOf(phases), total_days)
    /\ pc' = "alloc_split"
    /\ UNCHANGED <<phrase, timeline, parse_result, phases, total_days, diff, fix_i,
                   ranges, response, daily_tasks>>
    /\ UNCHANGED <<webVars, restVars, gen_calls>>

\* dur_sum != total_days and dur_sum > 0: scale, then enter the rounding fix
AllocScale ==
    /\ pc = "alloc_split"
    /\ NeedsScaling(durations, total_days)
    /\ durations' = ScaledDurations(durations, total_days)
    /\ diff' = total_days - SumSeq(ScaledDurations(durations, total_days))
    /\ fix_i' = 0
    /\ pc' = "alloc_fix"
    /\ UNCHANGED <<phrase, timeline, parse_result, phases, total_days, parsed,
                   ranges, response, daily_tasks>>
    /\ UNCHANGED <<webVars, restVars, gen_calls>>

\* one iteration of `for i in range(abs(diff))`
AllocFixStep ==
    /\ pc = "alloc_fix"
    /\ fix_i < Abs(diff)
    /\ durations' = FixStep(durations, diff, fix_i)
    /\ fix_i' = fix_i + 1
    /\ UNCHANGED <<pc, phrase, timeline, parse_result, phases, total_days, parsed,
                   diff, ranges, response, daily_tasks>>
    /\ UNCHANGED <<webVars, restVars, gen_calls>>

\* convert the durations to ranges and return
AllocRanges ==
    /\ IF pc = "alloc_fix" THEN fix_i >= Abs(diff)
       ELSE pc = "alloc_split" /\ ~NeedsScaling(durations, total_days)
    /\ ranges' = ToRanges(durations)
    /\ pc' = "alloc_done"
    /\ UNCHANGED <<phrase, timeline, parse_result, phases, total_days, parsed,
                   durations, diff, fix_i, response, daily_tasks>>
    /\ UNCHANGED <<webVars, restVars, gen_calls>>

Next == AllocEmpty \/ AllocSplit \/ AllocScale \/ AllocFixStep \/ AllocRanges

Spec == Init /\ [][Next]_vars

(***************************************************************************)
(* SpecFallback: one call of _fallback_distribute_tasks(phases,            *)
(* total_days) with phase_ranges left to its default                       *)
(***************************************************************************)
InitFallback ==
    /\ phases \in SeqsUpTo(FbPhases, MaxFbPhases)
    /\ total_days \in 1..MaxFbDays
    /\ pc = "fb_call"
    /\ phrase = NoPhrase
    /\ timeline = <<>>
    /\ parse_result = None
    /\ parsed = <<>>
    /\ durations = <<>>
    /\ diff = 0
    /\ fix_i = 0
    /\ ranges = <<>>
    /\ response = NoResponse
    /\ daily_tasks = <<>>
    /\ WebIdle

FallbackCall ==
    /\ pc = "fb_call"
    /\ ranges' = ComputePhaseDayRanges(phases, total_days)
    /\ daily_tasks' = FallbackDistributeTasks(phases, total_days, None)
    /\ pc' = "fb_done"
    /\ UNCHANGED <<phrase, timeline, parse_result, phases, total_days, parsed,
                   durations, diff, fix_i, response>>
    /\ UNCHANGED <<webVars, restVars, gen_calls>>

NextFallback == FallbackCall

SpecFallback == InitFallback /\ [][NextFallback]_vars

(***************************************************************************)
(* SpecFbSteps: one call of _fallback_distribute_tasks(phases, total_days) *)
(* taken loop by loop: a step per phase of the `for` loop and a step per   *)
(* pass of the "Continue: " `while` loop.  The function is synchronous, so *)
(* a step that can be taken is taken (weak fairness).                      *)
(***************************************************************************)
\* phases without tasks, with one task and with three tasks
FbStepPhases == [timeline : {T_missing}, tasks : {TaskList(0), TaskList(1), TaskList(3)}]

InitFbSteps ==
    /\ phases \in SeqsUpTo(FbStepPhases, MaxFbPhases)
    /\ total_days \in 1..MaxFbDays
    /\ pc = "fbs_call"
    /\ phrase = NoPhrase
    /\ timeline = <<>>
    /\ parse_result = None
    /\ parsed = <<>>
    /\ durations = <<>>
    /\ diff = 0
    /\ fix_i = 0
    /\ ranges = <<>>
    /\ response = NoResponse
    /\ daily_tasks = <<>>
    /\ WebIdle

\* the variables no step of the fallback call writes
fbFrame == <<phrase, timeline, parse_result, phases, total_days, parsed, durations,
             diff, fix_i, response, webVars, lifeVars, gen_calls>>

\* `if not phases: return daily_tasks`, else the default phase_ranges
FbsEnter ==
    /\ pc = "fbs_call"
    /\ IF phases = <<>>
       THEN /\ pc' = "fbs_done"
            /\ UNCHANGED ranges
       ELSE /\ pc' = "fbs_phase"
            /\ ranges' = ComputePhaseDayRanges(phases, total_days)
    /\ UNCHANGED <<daily_tasks, fbVars>>
    /\ UNCHANGED fbFrame

\* `if not phase_tasks: continue`
FbsSkip ==
    /\ pc = "fbs_phase"
    /\ fb_phase_idx < Len(phases)
    /\ phases[fb_phase_idx + 1].tasks = <<>>
    /\ fb_phase_idx' = fb_phase_idx + 1
    /\ UNCHANGED <<pc, ranges, daily_tasks, fb_expanded, fb_idx>>
    /\ UNCHANGED fbFrame

\* target_count and the framing `for` loops, or the unexpanded list
FbsFrame ==
    /\ pc = "fbs_phase"
    /\ fb_phase_idx < Len(phases)
    /\ phases[fb_phase_idx + 1].tasks # <<>>
    /\ LET phase_tasks == phases[fb_phase_idx + 1].tasks
           dur == RangeOf(ranges, fb_phase_idx, total_days).duration
           target_count == TargetCount(phase_tasks, dur)
       IN  IF Len(phase_tasks) < target_count
           THEN /\ fb_expanded' = FrameLoop(phase_tasks, target_count, 1, 1, <<>>)
                /\ fb_idx' = 0
                /\ pc' = "fbs_fill"
           ELSE /\ fb_expanded' = Expanded(phase_tasks, dur)
                /\ pc' = "fbs_spread"
                /\ UNCHANGED fb_idx
    /\ UNCHANGED <<ranges, daily_tasks, fb_phase_idx>>
    /\ UNCHANGED fbFrame

\* as FbsFill, with a pass that appends nothing and leaves idx alone
FbsFill_NoProgress ==
    /\ pc = "fbs_fill"
    /\ LET phase_tasks == phases[fb_phase_idx + 1].tasks
           dur == RangeOf(ranges, fb_phase_idx, total_days).duration
           target_count == TargetCount(phase_tasks, dur)
       IN  IF Len(fb_expanded) < target_count /\ phase_tasks # <<>>
           THEN UNCHANGED <<fb_expanded, fb_idx, pc>>
           ELSE /\ pc' = "fbs_spread"
                /\ UNCHANGED <<fb_expanded, fb_idx>>
    /\ UNCHANGED <<ranges, daily_tasks, fb_phase_idx>>
    /\ UNCHANGED fbFrame

\* one test of the `while` condition and, when it holds, one pass of the body
\* with its `if idx > target_count * 2: break`
FbsFill ==
    /\ pc = "fbs_fill"
    /\ LET phase_tasks == phases[fb_phase_idx + 1].tasks
           dur == RangeOf(ranges, fb_phase_idx, total_days).duration
           target_count == TargetCount(phase_tasks, dur)
       IN  IF Len(fb_expanded) < target_count /\ phase_tasks # <<>>
           THEN /\ fb_expanded' = FillOnce(phase_tasks, fb_idx, fb_expanded)
                /\ fb_idx' = fb_idx + 1
                /\ pc' = IF fb_idx' > target_count * 2 THEN "fbs_spread" ELSE "fbs_fill"
           ELSE /\ pc' = "fbs_spread"
                /\ UNCHANGED <<fb_expanded, fb_idx>>
    /\ UNCHANGED <<ranges, daily_tasks, fb_phase_idx>>
    /\ UNCHANGED fbFrame

\* the tasks of the phase get their days and the next phase is up
FbsSpread ==
    /\ pc = "fbs_spread"
    /\ daily_tasks' = daily_tasks
                          \o Spread(fb_phase_idx, fb_expanded,
                                    RangeOf(ranges, fb_phase_idx, total_days))
    /\ fb_phase_idx' = fb_phase_idx + 1
    /\ pc' = "fbs_phase"
    /\ UNCHANGED <<ranges, fb_expanded, fb_idx>>
    /\ UNCHANGED fbFrame

\* the `for` loop is over: return daily_tasks
FbsReturn ==
    /\ pc = "fbs_phase"
    /\ fb_phase_idx >= Len(phases)
    /\ pc' = "fbs_done"
    /\ UNCHANGED <<ranges, daily_tasks, fbVars>>
    /\ UNCHANGED fbFrame

NextFbSteps == FbsEnter \/ FbsSkip \/ FbsFrame \/ FbsFill \/ FbsSpread \/ FbsReturn

SpecFbSteps == InitFbSteps /\ [][NextFbSteps]_vars /\ WF_vars(NextFbSteps)

(***************************************************************************)
(* SpecGen: one call of generate_daily_tasks_from_roadmap, by what the     *)
(* external generator answers                                              *)
(***************************************************************************)
InitGen ==
    /\ phases \in SeqsUpTo(GenPhases, MaxGenPhases)
    /\ total_days \in 1..MaxGenDays
    /\ pc = "gen_call"
    /\ phrase = NoPhrase
    /\ timeline = <<>>
    /\ parse_result = None
    /\ parsed = <<>>
    /\ durations = <<>>
    /\ diff = 0
    /\ fix_i = 0
    /\ ranges = <<>>
    /\ response = NoResponse
    /\ daily_tasks = <<>>
    /\ WebIdle

\* model.generate_content raises: the exception leaves the call
GenRaises ==
    /\ pc = "gen_call"
    /\ ranges' = ComputePhaseDayRanges(phases, total_days)
    /\ response' = [kind |-> "raise", items |-> <<>>]
    /\ pc' = "gen_raised"
    /\ UNCHANGED <<phrase, timeline, parse_result, phases, total_days, parsed,
                   durations, diff, fix_i, daily_tasks>>
    /\ gen_calls' = gen_calls + GeneratorCalls(response')
    /\ UNCHANGED <<webVars, restVars>>

\* _extract_json gives None, or a dict without "daily_tasks": fall back
GenUnusable ==
    /\ pc = "gen_call"
    /\ \E kind \in {"no_json", "no_daily_tasks"} :
          response' = [kind |-> kind, items |-> <<>>]
    /\ ranges' = ComputePhaseDayRanges(phases, total_days)
    /\ daily_tasks' = FallbackDistributeTasks(phases, total_days, ranges')
    /\ pc' = "gen_done"
    /\ UNCHANGED <<phrase, timeline, parse_result, phases, total_days, parsed,
                   durations, diff, fix_i>>
    /\ gen_calls' = gen_calls + GeneratorCalls(response')
    /\ UNCHANGED <<webVars, restVars>>

\* the answer holds a "daily_tasks" list: clamp every item and return the list
GenList ==
    /\ pc = "gen_call"
    /\ ranges' = ComputePhaseDayRanges(phases, total_days)
    /\ \E items \in SeqsUpTo(GenItems(Len(phases)), MaxItems) :
          /\ response' = [kind |-> "list", items |-> items]
          /\ daily_tasks' = ClampTasks(items, ranges')
    /\ pc' = "gen_done"
    /\ UNCHANGED <<phrase, timeline, parse_result, phases, total_days, parsed,
                   durations, diff, fix_i>>
    /\ gen_calls' = gen_calls + GeneratorCalls(response')
    /\ UNCHANGED <<webVars, restVars>>

NextGen == GenRaises \/ GenUnusable \/ GenList

SpecGen == InitGen /\ [][NextGen]_vars

(***************************************************************************)
(* SpecApprove: one call of approve_roadmap on a roadmap of the caller's   *)
(* goal, up to the await of the generator and from its answer on           *)
(***************************************************************************)
\* what the generator can put into one item: as GenItems, with a day past
\* date.max and with or without a "priority"
ApproveItems(n) ==
    LET days == Optional({0, MaxGenDays + 1, BigDay})
        idxs == Optional((0 - 1)..n)
    IN  [day : days, phase_index : idxs]
        \cup [day : days, phase_index : idxs, priority : {0, 9}]

\* roadmap.phases: a phase without tasks and one with a task and a timeline
ApprovePhases ==
    {[timeline |-> T_missing, tasks |-> <<>>],
     [timeline |-> T_2days, tasks |-> TaskList(1)]}

\* goal.target_date: none, yesterday, tomorrow, MaxGenDays days ahead
Deadlines == Optional({0 - 1, 1, MaxGenDays})

InitApprove ==
    /\ phases \in SeqsUpTo(ApprovePhases, MaxGenPhases)
    /\ deadline \in Deadlines
    /\ pc = "approve_call"
    /\ total_days = 0
    /\ phrase = NoPhrase
    /\ timeline = <<>>
    /\ parse_result = None
    /\ parsed = <<>>
    /\ durations = <<>>
    /\ diff = 0
    /\ fix_i = 0
    /\ ranges = <<>>
    /\ response = NoResponse
    /\ daily_tasks = <<>>
    /\ milestones = <<>>
    /\ created = <<>>
    /\ gen_ranges = <<>>
    /\ last = NoRequest
    /\ ApiIdle
    /\ RestIdle

\* `if not phases`: commit and return tasks_created = 0
ApproveNoPhases ==
    /\ pc = "approve_call"
    /\ phases = <<>>
    /\ last' = [op |-> "approve", client |-> 0, cookie |-> None, user |-> 0, arg |-> <<>>,
                status |-> 200, body |-> <<0>>]
    /\ pc' = "approve_done"
    /\ UNCHANGED <<phrase, timeline, parse_result, phases, total_days, parsed,
                   durations, diff, fix_i, ranges, response, daily_tasks>>
    /\ UNCHANGED <<deadline, milestones, created, gen_ranges, db_users, db_goals, db_tasks,
                   cookies, signed_out>>
    /\ UNCHANGED <<restVars, gen_calls>>

\* total_days, phase_ranges and the milestones, up to the generator call
ApprovePrepare ==
    /\ pc = "approve_call"
    /\ phases # <<>>
    /\ total_days' = TotalDaysFor(deadline, Len(phases))
    /\ ranges' = ComputePhaseDayRanges(phases, total_days')
    /\ milestones' = MilestonesFor(phases, ranges', total_days')
    /\ gen_ranges' = ComputePhaseDayRanges(phases, total_days')
    /\ pc' = "approve_generate"
    /\ UNCHANGED <<phrase, timeline, parse_result, phases, parsed, durations, diff,
                   fix_i, response, daily_tasks>>
    /\ UNCHANGED <<deadline, created, db_users, db_goals, db_tasks, cookies, signed_out,
                   last>>
    /\ UNCHANGED <<restVars, gen_calls>>

\* from the generator's answer to the response: the Task rows are committed,
\* or a date out of range raises and the session is closed without a commit
ApproveFinish(resp) ==
    /\ response' = resp
    /\ gen_calls' = gen_calls + GeneratorCalls(resp)
    /\ daily_tasks' = DailyTasksFor(phases, total_days, ranges, gen_ranges, resp)
    /\ IF \A k \in 1..Len(daily_tasks') : DateInRange(DayNum(daily_tasks'[k]))
       THEN /\ created' = CreateTasks(daily_tasks', milestones)
            /\ last' = [op |-> "approve", client |-> 0, cookie |-> None, user |-> 0, arg |-> <<>>,
                        status |-> 200, body |-> <<Len(daily_tasks')>>]
            /\ pc' = "approve_done"
            /\ UNCHANGED milestones
       ELSE /\ created' = <<>>
            /\ milestones' = <<>>
            /\ last' = [op |-> "approve", client |-> 0, cookie |-> None, user |-> 0, arg |-> <<>>,
                        status |-> 500, body |-> <<>>]
            /\ pc' = "approve_failed"
    /\ UNCHANGED <<phrase, timeline, parse_result, phases, total_days, parsed,
                   durations, diff, fix_i, ranges>>
    /\ UNCHANGED <<deadline, gen_ranges, db_users, db_goals, db_tasks, cookies,
                   signed_out>>
    /\ UNCHANGED restVars

\* the generator call raises, or "daily_tasks" does not hold task records
ApproveGenRaises ==
    /\ pc = "approve_generate"
    /\ \E kind \in {"raise", "not_records"} :
          ApproveFinish([kind |-> kind, items |-> <<>>])

\* no JSON in the answer, or a dict without "daily_tasks"
ApproveGenUnusable ==
    /\ pc = "approve_generate"
    /\ \E kind \in {"no_json", "no_daily_tasks"} :
          ApproveFinish([kind |-> kind, items |-> <<>>])

\* the answer holds a "daily_tasks" list
ApproveGenList ==
    /\ pc = "approve_generate"
    /\ \E items \in SeqsUpTo(ApproveItems(Len(phases)), MaxItems) :
          ApproveFinish([kind |-> "list", items |-> items])

NextApprove ==
    ApproveNoPhases \/ ApprovePrepare \/ ApproveGenRaises \/ ApproveGenUnusable
        \/ ApproveGenList

SpecApprove == InitApprove /\ [][NextApprove]_vars

(***************************************************************************)
(* The endpoints of main.py.  A browser client sends the cookie of its     *)
(* jar; client 0 sends no cookie or one it wrote itself.  The titles,      *)
(* priorities, dates and audit rows are not modelled.                      *)
(***************************************************************************)
Clients == {1, 2}

\* credentials.phone
PhoneInputs == {<<"7">>, <<" ", "7">>, <<"8">>, <<"8", " ">>}

P_7 == <<"7">>
P_8 == <<"8">>
P_9 == <<"9">>

\* the users table of SpecApi: two active users and one set inactive from
\* outside the endpoints (get_current_user reads is_active, no endpoint
\* writes it)
ApiUsers == <<NewUser(P_7), NewUser(P_8), [NewUser(P_9) EXCEPT !.is_active = FALSE]>>

\* what client 0 sends: no cookie, a signature made with another key, the
\* signature of another payload, the session of a user id without a row, the
\* session of the inactive user
CraftedCookies ==
    {None,
     Some([payload |-> [uid |-> Some(1)], sig |-> Hmac("guess", [uid |-> Some(1)])]),
     Some([payload |-> [uid |-> Some(1)], sig |-> Hmac(SECRET_KEY, [uid |-> Some(2)])]),
     Some(CreateSessionValue(Len(ApiUsers) + 1)),
     Some(CreateSessionValue(Len(ApiUsers)))}

\* the browser clients with the cookie of their jar
Browsers == {[client |-> c, cookie |-> cookies[c]] : c \in Clients}

\* who can send a request now, with the cookie the request carries
Requesters == Browsers \cup {[client |-> 0, cookie |-> ck] : ck \in CraftedCookies}

GoalIds == 1..MaxGoals
TaskIds == 1..MaxApiTasks

Response(op, rq, user, arg, status, body) ==
    [op |-> op, client |-> rq.client, cookie |-> rq.cookie, user |-> user, arg |-> arg,
     status |-> status, body |-> body]

\* Depends(get_current_user) raised 401 on a request to the endpoint op: the
\* handler does not run, whatever the path and the body of the request are
Unauthorized(rq, op) ==
    /\ GetCurrentUser(rq.cookie, db_users) = 0
    /\ last' = Response(op, rq, 0, <<>>, 401, <<>>)
    /\ UNCHANGED <<db_users, db_goals, db_tasks, cookies, signed_out>>
    /\ UNCHANGED <<schedVars, restVars, gen_calls>>

\* the scheduling core and approve_roadmap at rest
SchedIdle(at) ==
    /\ pc = at
    /\ phrase = NoPhrase
    /\ timeline = <<>>
    /\ parse_result = None
    /\ phases = <<>>
    /\ total_days = 0
    /\ parsed = <<>>
    /\ durations = <<>>
    /\ diff = 0
    /\ fix_i = 0
    /\ ranges = <<>>
    /\ response = NoResponse
    /\ daily_tasks = <<>>
    /\ deadline = None
    /\ milestones = <<>>
    /\ created = <<>>
    /\ gen_ranges = <<>>
    /\ RestIdle

\* POST /auth/login
Login(c, raw) ==
    LET phone == PhoneOf(raw)
        found == UserByPhone(db_users, phone)
        user_id == IF found = 0 THEN Len(db_users) + 1 ELSE found
    IN  /\ db_users' = IF found = 0 THEN Append(db_users, NewUser(phone)) ELSE db_users
        /\ cookies' = [cookies EXCEPT ![c] = Some(CreateSessionValue(user_id))]
        /\ signed_out' = signed_out \ {c}
        /\ last' = [op |-> "login", client |-> c, cookie |-> cookies[c], user |-> 0,
                    arg |-> raw, status |-> 200, body |-> <<user_id>>]
        /\ UNCHANGED <<db_goals, db_tasks>>
        /\ UNCHANGED <<schedVars, restVars, gen_calls>>

\* POST /auth/logout: delete_cookie
Logout(c) ==
    /\ cookies' = ClearedJar(cookies, c)
    /\ signed_out' = IF cookies[c] # None THEN signed_out \cup {c} ELSE signed_out
    /\ last' = [op |-> "logout", client |-> c, cookie |-> cookies[c], user |-> 0,
                arg |-> <<>>, status |-> 200, body |-> <<>>]
    /\ UNCHANGED <<db_users, db_goals, db_tasks>>
    /\ UNCHANGED <<schedVars, restVars, gen_calls>>

\* GET /auth/me
Me(rq) ==
    LET current_user == GetCurrentUser(rq.cookie, db_users)
    IN  /\ current_user # 0
        /\ last' = Response("me", rq, current_user, <<>>, 200, <<current_user>>)
        /\ UNCHANGED <<db_users, db_goals, db_tasks, cookies, signed_out>>
        /\ UNCHANGED <<schedVars, restVars, gen_calls>>

\* POST /goals
CreateGoal(rq) ==
    LET current_user == GetCurrentUser(rq.cookie, db_users)
        goal == [id |-> NextId(db_goals), user_id |-> current_user, status |-> "active"]
    IN  /\ current_user # 0
        /\ goal.id <= MaxGoals
        /\ db_goals' = db_goals \cup {goal}
        /\ last' = Response("create_goal", rq, current_user, <<>>, 201, <<goal.id>>)
        /\ UNCHANGED <<db_users, db_tasks, cookies, signed_out>>
        /\ UNCHANGED <<schedVars, restVars, gen_calls>>

\* GET /goals
ListGoals(rq) ==
    LET current_user == GetCurrentUser(rq.cookie, db_users)
    IN  /\ current_user # 0
        /\ last' = Response("list_goals", rq, current_user, <<>>, 200,
                            IdsOf(OwnedBy(db_goals, current_user)))
        /\ UNCHANGED <<db_users, db_goals, db_tasks, cookies, signed_out>>
        /\ UNCHANGED <<schedVars, restVars, gen_calls>>

\* GET /goals/{goal_id}
GetGoal(rq, goal_id) ==
    LET current_user == GetCurrentUser(rq.cookie, db_users)
        goal == UserRow(db_goals, goal_id, current_user)
    IN  /\ current_user # 0
        /\ last' = IF goal = {}
                    THEN Response("get_goal", rq, current_user, <<goal_id>>, 404, <<>>)
                    ELSE Response("get_goal", rq, current_user, <<goal_id>>, 200,
                                  IdsOf(goal))
        /\ UNCHANGED <<db_users, db_goals, db_tasks, cookies, signed_out>>
        /\ UNCHANGED <<schedVars, restVars, gen_calls>>

\* .filter(Milestone.goal_id == goal.id)
MilestonesOfGoal(rows, goal_id) == {m \in rows : m.goal_id = goal_id}

\* .filter(Task.milestone_id.in_(milestone_ids)); delete_goal skips the query
\* when there is no milestone
TasksOfMilestones(tasks, milestone_ids) ==
    IF milestone_ids = {} THEN {}
    ELSE {t \in tasks : t.milestone_id # None /\ t.milestone_id[1] \in milestone_ids}

\* as AuditOfTasks, finding no audit row
AuditOfTasks_NoRow(audit, task_ids) == {}

\* .filter(AuditLog.task_id.in_(task_ids))
AuditOfTasks(audit, task_ids) ==
    IF task_ids = {} THEN {} ELSE {a \in audit : a.task_id \in task_ids}

\* .filter(X.goal_id == goal.id).delete(): the rows that stay
WithoutGoal(rows, goal_id) == {r \in rows : r.goal_id # goal_id}

\* DELETE /goals/{goal_id}, the try block running to its commit
DeleteGoal(rq, goal_id) ==
    LET current_user == GetCurrentUser(rq.cookie, db_users)
        goal == UserRow(db_goals, goal_id, current_user)
        old_milestones == MilestonesOfGoal(db_milestones, goal_id)
        old_tasks == TasksOfMilestones(db_tasks, {m.id : m \in old_milestones})
    IN  /\ current_user # 0
        /\ last' = IF goal = {}
                    THEN Response("delete_goal", rq, current_user, <<goal_id>>, 404,
                                  <<>>)
                    ELSE Response("delete_goal", rq, current_user, <<goal_id>>, 200,
                                  <<goal_id>>)
        /\ IF goal = {}
           THEN UNCHANGED <<db_goals, db_tasks, db_roadmaps, db_milestones, db_audit,
                            db_logs, db_convs>>
           ELSE /\ db_audit' = db_audit \ AuditOfTasks(db_audit, {t.id : t \in old_tasks})
                /\ db_tasks' = db_tasks \ old_tasks
                /\ db_milestones' = db_milestones \ old_milestones
                /\ db_roadmaps' = WithoutGoal(db_roadmaps, goal_id)
                /\ db_logs' = WithoutGoal(db_logs, goal_id)
                /\ db_convs' = WithoutGoal(db_convs, goal_id)
                /\ db_goals' = db_goals \ goal
        /\ UNCHANGED <<db_users, cookies, signed_out, today>>
        /\ UNCHANGED <<schedVars, fbVars, gen_calls>>

\* DELETE /goals/{goal_id}, a statement of the try block raising: rollback
\* and 500
DeleteGoalFails(rq, goal_id) ==
    LET current_user == GetCurrentUser(rq.cookie, db_users)
        goal == UserRow(db_goals, goal_id, current_user)
    IN  /\ current_user # 0
        /\ goal # {}
        /\ last' = Response("delete_goal", rq, current_user, <<goal_id>>, 500, <<>>)
        /\ UNCHANGED <<db_users, db_goals, db_tasks, cookies, signed_out>>
        /\ UNCHANGED <<schedVars, restVars, gen_calls>>

\* POST /tasks
CreateTask(rq) ==
    LET current_user == GetCurrentUser(rq.cookie, db_users)
        task == [id |-> NextId(db_tasks), user_id |-> current_user, status |-> 0,
                 completed |-> FALSE]
    IN  /\ current_user # 0
        /\ task.id <= MaxApiTasks
        /\ db_tasks' = db_tasks \cup {task}
        /\ last' = Response("create_task", rq, current_user, <<>>, 201, <<task.id>>)
        /\ UNCHANGED <<db_users, db_goals, cookies, signed_out>>
        /\ UNCHANGED <<schedVars, restVars, gen_calls>>

\* GET /tasks
ListTasks(rq) ==
    LET current_user == GetCurrentUser(rq.cookie, db_users)
    IN  /\ current_user # 0
        /\ last' = Response("list_tasks", rq, current_user, <<>>, 200,
                            IdsOf(OwnedBy(db_tasks, current_user)))
        /\ UNCHANGED <<db_users, db_goals, db_tasks, cookies, signed_out>>
        /\ UNCHANGED <<schedVars, restVars, gen_calls>>

\* GET /tasks/{task_id}
GetTask(rq, task_id) ==
    LET current_user == GetCurrentUser(rq.cookie, db_users)
        task == UserRow(db_tasks, task_id, current_user)
    IN  /\ current_user # 0
        /\ last' = IF task = {}
                    THEN Response("get_task", rq, current_user, <<task_id>>, 404, <<>>)
                    ELSE Response("get_task", rq, current_user, <<task_id>>, 200,
                                  IdsOf(task))
        /\ UNCHANGED <<db_users, db_goals, db_tasks, cookies, signed_out>>
        /\ UNCHANGED <<schedVars, restVars, gen_calls>>

\* PUT /tasks/{task_id} with task_update.status, None when it is left out
UpdateTask(rq, task_id, new_status) ==
    LET current_user == GetCurrentUser(rq.cookie, db_users)
        task == UserRow(db_tasks, task_id, current_user)
        arg == <<task_id>> \o new_status
    IN  /\ current_user # 0
        /\ last' = IF task = {}
                    THEN Response("update_task", rq, current_user, arg, 404, <<>>)
                    ELSE Response("update_task", rq, current_user, arg, 200,
                                  IdsOf(task))
        /\ db_tasks' = (db_tasks \ task)
                           \cup {UpdatedTask(t, new_status) : t \in task}
        /\ UNCHANGED <<db_users, db_goals, cookies, signed_out>>
        /\ UNCHANGED <<schedVars, restVars, gen_calls>>

\* DELETE /tasks/{task_id}
DeleteTask(rq, task_id) ==
    LET current_user == GetCurrentUser(rq.cookie, db_users)
        task == UserRow(db_tasks, task_id, current_user)
    IN  /\ current_user # 0
        /\ last' = IF task = {}
                    THEN Response("delete_task", rq, current_user, <<task_id>>, 404,
                                  <<>>)
                    ELSE Response("delete_task", rq, current_user, <<task_id>>, 200,
                                  <<task_id>>)
        /\ db_tasks' = db_tasks \ task
        /\ UNCHANGED <<db_users, db_goals, cookies, signed_out>>
        /\ UNCHANGED <<schedVars, restVars, gen_calls>>

\* GET /stats/overview
Stats(rq) ==
    LET current_user == GetCurrentUser(rq.cookie, db_users)
    IN  /\ current_user # 0
        /\ last' = Response("stats", rq, current_user, <<>>, 200,
                            OverviewStats(db_goals, db_tasks, current_user))
        /\ UNCHANGED <<db_users, db_goals, db_tasks, cookies, signed_out>>
        /\ UNCHANGED <<schedVars, restVars, gen_calls>>

\* a user row is set inactive from outside the endpoints
Deactivate(user_id) ==
    /\ user_id \in 1..Len(db_users)
    /\ db_users[user_id].is_active
    /\ db_users' = [db_users EXCEPT ![user_id].is_active = FALSE]
    /\ last' = NoRequest
    /\ UNCHANGED <<db_goals, db_tasks, cookies, signed_out>>
    /\ UNCHANGED <<schedVars, restVars, gen_calls>>

\* the endpoints behind Depends(get_current_user)
ProtectedOps ==
    {"me", "create_goal", "list_goals", "get_goal", "delete_goal", "create_task",
     "list_tasks", "get_task", "update_task", "delete_task", "stats"}

\* task_update.status of a PUT /tasks/{task_id}: left out, -1 (missed), 0 (due)
\* or 1 (completed)
StatusUpdates == Optional((0 - 1)..1)

\* one request to an endpoint behind Depends(get_current_user)
Protected(rq) ==
    \/ \E op \in ProtectedOps : Unauthorized(rq, op)
    \/ Me(rq)
    \/ CreateGoal(rq)
    \/ ListGoals(rq)
    \/ \E goal_id \in GoalIds : GetGoal(rq, goal_id)
    \/ \E goal_id \in GoalIds : DeleteGoal(rq, goal_id)
    \/ CreateTask(rq)
    \/ ListTasks(rq)
    \/ \E task_id \in TaskIds : GetTask(rq, task_id)
    \/ \E task_id \in TaskIds : \E new_status \in StatusUpdates :
           UpdateTask(rq, task_id, new_status)
    \/ \E task_id \in TaskIds : DeleteTask(rq, task_id)
    \/ Stats(rq)

(***************************************************************************)
(* SpecApi: requests to the goal, task and stats endpoints and to          *)
(* /auth/me, after the two browser clients logged in as users 1 and 2.     *)
(* approve_roadmap is not part of this specification, so the milestones    *)
(* table stays empty.                                                      *)
(***************************************************************************)
InitApi ==
    /\ db_users = ApiUsers
    /\ db_goals = {}
    /\ db_tasks = {}
    /\ cookies = [c \in Clients |-> Some(CreateSessionValue(c))]
    /\ signed_out = {}
    /\ last = NoRequest
    /\ SchedIdle("api")

\* the client has taken the response: the next request can be sent
ResponseRead ==
    /\ last # NoRequest
    /\ last' = NoRequest
    /\ UNCHANGED <<db_users, db_goals, db_tasks, cookies, signed_out>>
    /\ UNCHANGED <<schedVars, restVars, gen_calls>>

\* the requests are sent one after another, each after the response to the
\* one before was read
NextApi ==
    \/ /\ last = NoRequest
       /\ \E rq \in Requesters : Protected(rq)
    \/ ResponseRead

SpecApi == InitApi /\ [][NextApi]_vars

(***************************************************************************)
(* SpecAuth: logins, logouts and /auth/me of the two browser clients on an *)
(* empty users table                                                       *)
(***************************************************************************)
InitAuth ==
    /\ db_users = <<>>
    /\ db_goals = {}
    /\ db_tasks = {}
    /\ cookies = [c \in Clients |-> None]
    /\ signed_out = {}
    /\ last = NoRequest
    /\ SchedIdle("auth")

NextAuth ==
    \/ \E c \in Clients : \E raw \in PhoneInputs : Login(c, raw)
    \/ \E c \in Clients : Logout(c)
    \/ \E rq \in Browsers : Unauthorized(rq, "me")
    \/ \E rq \in Browsers : Me(rq)
    \/ \E user_id \in 1..Len(db_users) : Deactivate(user_id)

SpecAuth == InitAuth /\ [][NextAuth]_vars

(***************************************************************************)
(* SpecToday: GET /tasks/today by the two logged-in users over a tasks     *)
(* table as create_task and update_task can leave it, and the days passing *)
(***************************************************************************)
FirstDay == 1

\* TaskCreate.scheduled_date: none, the day before FirstDay, FirstDay, the
\* day after
ScheduledDates == Optional((FirstDay - 1)..(FirstDay + 1))

\* the rows a tasks table can hold
TodayRows(task_id) ==
    {[id |-> task_id, user_id |-> u, status |-> st, completed |-> st = 1,
      scheduled_date |-> d] :
        u \in 1..2, st \in (0 - 1)..1, d \in ScheduledDates}

\* the tables of k tasks, with the ids 1..k
RECURSIVE TodayTables(_)
TodayTables(k) ==
    IF k = 0 THEN {{}}
    ELSE {tbl \cup {row} : tbl \in TodayTables(k - 1), row \in TodayRows(k)}

InitToday ==
    /\ db_users = ApiUsers
    /\ db_goals = {}
    /\ db_tasks \in UNION {TodayTables(k) : k \in 0..MaxTodayTasks}
    /\ cookies = [c \in Clients |-> Some(CreateSessionValue(c))]
    /\ signed_out = {}
    /\ last = NoRequest
    /\ pc = "today"
    /\ phrase = NoPhrase
    /\ timeline = <<>>
    /\ parse_result = None
    /\ phases = <<>>
    /\ total_days = 0
    /\ parsed = <<>>
    /\ durations = <<>>
    /\ diff = 0
    /\ fix_i = 0
    /\ ranges = <<>>
    /\ response = NoResponse
    /\ daily_tasks = <<>>
    /\ deadline = None
    /\ milestones = <<>>
    /\ created = <<>>
    /\ gen_ranges = <<>>
    /\ fb_phase_idx = 0
    /\ fb_expanded = <<>>
    /\ fb_idx = 0
    /\ gen_calls = 0
    /\ db_roadmaps = {}
    /\ db_milestones = {}
    /\ db_audit = {}
    /\ db_logs = {}
    /\ db_convs = {}
    /\ today = FirstDay

\* GET /tasks/today
GetTodayTasks(rq) ==
    LET current_user == GetCurrentUser(rq.cookie, db_users)
        overdue_tasks == OverdueTasks(db_tasks, current_user, today)
        tasks == TodaysTasks(db_tasks', current_user, today)
    IN  /\ current_user # 0
        /\ db_tasks' = (db_tasks \ overdue_tasks)
                           \cup {[t EXCEPT !.scheduled_date = Some(today)] :
                                    t \in overdue_tasks}
        /\ db_audit' = db_audit \cup RescheduledRows(db_audit, overdue_tasks)
        /\ last' = Response("today", rq, current_user, <<>>, 200,
                            <<Cardinality(tasks),
                              Cardinality({t \in tasks : t.status = 1}),
                              Cardinality({t \in tasks : t.status = 0}),
                              Cardinality({t \in tasks : t.status = 0 - 1}),
                              Cardinality(overdue_tasks)>>)
        /\ UNCHANGED <<db_users, db_goals, cookies, signed_out>>
        /\ UNCHANGED <<db_roadmaps, db_milestones, db_logs, db_convs, today>>
        /\ UNCHANGED <<schedVars, fbVars, gen_calls>>

\* midnight UTC passes
NextDay ==
    /\ today < FirstDay + MaxDaysPassed
    /\ today' = today + 1
    /\ last' = NoRequest
    /\ UNCHANGED <<db_users, db_goals, db_tasks, cookies, signed_out>>
    /\ UNCHANGED <<db_roadmaps, db_milestones, db_audit, db_logs, db_convs>>
    /\ UNCHANGED <<schedVars, fbVars, gen_calls>>

NextToday ==
    \/ \E rq \in Browsers : GetTodayTasks(rq)
    \/ NextDay

SpecToday == InitToday /\ [][NextToday]_vars

(***************************************************************************)
(* SpecLife: the roadmap endpoints and delete_goal of user 1 and user 2 on *)
(* the two goals of user 1.  Goal 1 is new.  Goal 2 was approved the day   *)
(* before FirstDay with a roadmap of one phase: its first task was moved   *)
(* to FirstDay by get_today_tasks, its second was completed, and the       *)
(* recalibration service and the conversation store each wrote a row.      *)
(* A row of a table is [id, ...]; a new row gets the id after the largest. *)
(***************************************************************************)
\* roadmap.phases: one phase with a task; a phase with a task and one without
LifePhases1 == <<[timeline |-> T_missing, tasks |-> TaskList(1)]>>
LifePhases2 ==
    <<[timeline |-> T_missing, tasks |-> TaskList(1)],
      [timeline |-> T_missing, tasks |-> <<>>]>>

\* result["phases"] of gemini_service.generate_roadmap and refine_roadmap:
\* None, an empty list, a list of phases
RoadmapResults == {None, Some(<<>>), Some(LifePhases1), Some(LifePhases2)}

\* json.dumps(result["phases"]) if result.get("phases") else None; the value
\* came out of json.loads, so loads gives it back from the text
PhasesJson(result) == IF result = None \/ result = Some(<<>>) THEN None ELSE result

\* body.get("feedback", "")
Feedbacks == {<<>>, <<"f">>}

\* the generator's answers at approval: the call raises; one item with a
\* priority above 5; one with a priority below 1 and no day; one without a
\* priority in no phase; one dated past date.max in no phase
LifeResponses ==
    {[kind |-> "raise", items |-> <<>>],
     [kind |-> "list",
      items |-> <<[day |-> Some(1), phase_index |-> Some(0), priority |-> 9]>>],
     [kind |-> "list",
      items |-> <<[day |-> None, phase_index |-> Some(1), priority |-> 0]>>],
     [kind |-> "list",
      items |-> <<[day |-> Some(2), phase_index |-> Some(5)]>>],
     [kind |-> "list",
      items |-> <<[day |-> Some(BigDay), phase_index |-> Some(0 - 1)]>>]}

RoadmapIds == 1..2

\* the goal_id of a request: a goal of the table
LifeGoalIds == 1..2

InitLife ==
    /\ db_users = ApiUsers
    /\ db_goals =
          {[id |-> 1, user_id |-> 1, status |-> "active", target_date |-> Some(FirstDay + 1)],
           [id |-> 2, user_id |-> 1, status |-> "active", target_date |-> Some(FirstDay)]}
    /\ db_roadmaps = {[id |-> 1, goal_id |-> 2, phases |-> Some(LifePhases1), approved |-> 1]}
    /\ db_milestones = {[id |-> 1, goal_id |-> 2, order_index |-> 0, status |-> "in_progress"]}
    /\ db_tasks =
          {[id |-> 1, user_id |-> 1, milestone_id |-> Some(1), status |-> 0,
            completed |-> FALSE, scheduled_date |-> Some(FirstDay), priority |-> 3],
           [id |-> 2, user_id |-> 1, milestone_id |-> Some(1), status |-> 1,
            completed |-> TRUE, scheduled_date |-> Some(FirstDay - 1), priority |-> 3]}
    /\ db_audit = {[id |-> 1, task_id |-> 1, action |-> "rescheduled"]}
    /\ db_logs = {[id |-> 1, goal_id |-> 2]}
    /\ db_convs = {[id |-> 1, goal_id |-> 2]}
    /\ today = FirstDay
    /\ cookies = [c \in Clients |-> Some(CreateSessionValue(c))]
    /\ signed_out = {}
    /\ last = NoRequest
    /\ pc = "life"
    /\ phrase = NoPhrase
    /\ timeline = <<>>
    /\ parse_result = None
    /\ phases = <<>>
    /\ total_days = 0
    /\ parsed = <<>>
    /\ durations = <<>>
    /\ diff = 0
    /\ fix_i = 0
    /\ ranges = <<>>
    /\ response = NoResponse
    /\ daily_tasks = <<>>
    /\ deadline = None
    /\ milestones = <<>>
    /\ created = <<>>
    /\ gen_ranges = <<>>
    /\ fb_phase_idx = 0
    /\ fb_expanded = <<>>
    /\ fb_idx = 0
    /\ gen_calls = 0

\* db.query(Roadmap).filter(Roadmap.goal_id == goal_id).first()
RoadmapOfGoal(rows, goal_id) == {r \in rows : r.goal_id = goal_id}

\* db.query(Roadmap).filter(Roadmap.id == roadmap_id).first()
RoadmapById(rows, roadmap_id) == {r \in rows : r.id = roadmap_id}

\* as NewRoadmaps, adding a row whether or not the goal has one
NewRoadmaps_AlwaysAdd(rows, existing, goal_id, result) ==
    rows \cup {[id |-> NextId(rows), goal_id |-> goal_id, phases |-> PhasesJson(result),
                approved |-> 0]}

\* the roadmaps table after generate_roadmap: the existing row overwritten
\* in place, or a row added with approved = 0
NewRoadmaps(rows, existing, goal_id, result) ==
    IF existing # {}
    THEN (rows \ existing) \cup {[r EXCEPT !.phases = PhasesJson(result)] : r \in existing}
    ELSE rows \cup {[id |-> NextId(rows), goal_id |-> goal_id,
                     phases |-> PhasesJson(result), approved |-> 0]}

\* POST /goals/{goal_id}/roadmap with the generator answering
GenerateRoadmap(rq, goal_id, result) ==
    LET current_user == GetCurrentUser(rq.cookie, db_users)
        goal == UserRow(db_goals, goal_id, current_user)
        existing_roadmap == RoadmapOfGoal(db_roadmaps, goal_id)
    IN  /\ current_user # 0
        /\ IF goal = {}
           THEN /\ last' = Response("generate", rq, current_user, <<goal_id>>, 404, <<>>)
                /\ UNCHANGED db_roadmaps
           ELSE IF \E r \in existing_roadmap : r.approved = 1
           THEN /\ last' = Response("generate", rq, current_user, <<goal_id>>, 400, <<>>)
                /\ UNCHANGED db_roadmaps
           ELSE /\ db_roadmaps' = NewRoadmaps(db_roadmaps, existing_roadmap, goal_id, result)
                /\ last' = Response("generate", rq, current_user, <<goal_id>>, 200,
                                    IdsOf(RoadmapOfGoal(db_roadmaps', goal_id)))
        /\ UNCHANGED <<db_users, db_goals, db_tasks, cookies, signed_out>>
        /\ UNCHANGED <<db_milestones, db_audit, db_logs, db_convs, today>>
        /\ UNCHANGED <<schedVars, fbVars, gen_calls>>

\* POST /goals/{goal_id}/roadmap with gemini_service.generate_roadmap
\* raising: 500, nothing committed
GenerateRoadmapFails(rq, goal_id) ==
    LET current_user == GetCurrentUser(rq.cookie, db_users)
        goal == UserRow(db_goals, goal_id, current_user)
    IN  /\ current_user # 0
        /\ goal # {}
        /\ \A r \in RoadmapOfGoal(db_roadmaps, goal_id) : r.approved # 1
        /\ last' = Response("generate", rq, current_user, <<goal_id>>, 500, <<>>)
        /\ UNCHANGED <<db_users, db_goals, db_tasks, cookies, signed_out>>
        /\ UNCHANGED <<schedVars, restVars, gen_calls>>

\* POST /roadmaps/{roadmap_id}/refine
RefineRoadmap(rq, roadmap_id, feedback, result) ==
    LET current_user == GetCurrentUser(rq.cookie, db_users)
        roadmap == RoadmapById(db_roadmaps, roadmap_id)
        goal == UNION {UserRow(db_goals, r.goal_id, current_user) : r \in roadmap}
    IN  /\ current_user # 0
        /\ IF feedback = <<>>
           THEN /\ last' = Response("refine", rq, current_user, <<roadmap_id>>, 400, <<>>)
                /\ UNCHANGED db_roadmaps
           ELSE IF roadmap = {} \/ goal = {}
           THEN /\ last' = Response("refine", rq, current_user, <<roadmap_id>>, 404, <<>>)
                /\ UNCHANGED db_roadmaps
           ELSE /\ db_roadmaps' =
                      IF PhasesJson(result) = None THEN db_roadmaps
                      ELSE (db_roadmaps \ roadmap)
                               \cup {[r EXCEPT !.phases = PhasesJson(result)] : r \in roadmap}
                /\ last' = Response("refine", rq, current_user, <<roadmap_id>>, 200,
                                    <<roadmap_id>>)
        /\ UNCHANGED <<db_users, db_goals, db_tasks, cookies, signed_out>>
        /\ UNCHANGED <<db_milestones, db_audit, db_logs, db_convs, today>>
        /\ UNCHANGED <<schedVars, fbVars, gen_calls>>

\* (goal.target_date.date() - today).days, None without a target_date
DaysLeft(goal, day) ==
    IF goal.target_date = None THEN None ELSE Some(goal.target_date[1] - day)

\* the Milestone rows of `for i, phase in enumerate(phases)`, each flushed
\* after it is added; rows are the milestones left after the cleanup
NewMilestones(rows, ph, rngs, total, goal_id) ==
    LET ms == MilestonesFor(ph, rngs, total)
    IN  {[id |-> NextId(rows) + k - 1, goal_id |-> goal_id,
          order_index |-> ms[k].order_index, status |-> ms[k].status] : k \in 1..Len(ms)}

\* the Task rows of `for task_data in daily_tasks`; rows are the tasks left
\* after the cleanup, ms the new milestones of the goal
NewTasks(rows, tasks, ph, rngs, total, ms, user_id, day) ==
    LET made == CreateTasks(tasks, MilestonesFor(ph, rngs, total))
    IN  {[id |-> NextId(rows) + k - 1, user_id |-> user_id,
          milestone_id |->
              Some((CHOOSE m \in ms : m.order_index = made[k].milestone).id),
          status |-> made[k].status, completed |-> FALSE,
          scheduled_date |-> Some(day + made[k].day - 1),
          priority |-> made[k].priority] : k \in 1..Len(made)}

\* as KeptMilestones, keeping the goal's earlier milestones
KeptMilestones_NoCleanup(rows, goal_id) == rows

\* the milestones table after `Clean up old milestones and tasks`
KeptMilestones(rows, goal_id) == rows \ MilestonesOfGoal(rows, goal_id)

\* PUT /roadmaps/{roadmap_id}/approve
ApproveRoadmap(rq, roadmap_id, resp) ==
    LET current_user == GetCurrentUser(rq.cookie, db_users)
        roadmap == RoadmapById(db_roadmaps, roadmap_id)
        goal == UNION {UserRow(db_goals, r.goal_id, current_user) : r \in roadmap}
        g == CHOOSE x \in goal : TRUE
        ph == LET r == CHOOSE x \in roadmap : TRUE
              IN  IF r.phases = None THEN <<>> ELSE r.phases[1]
        total == TotalDaysFor(DaysLeft(g, today), Len(ph))
        old_milestones == MilestonesOfGoal(db_milestones, g.id)
        old_tasks == UNION {TasksOfMilestones(db_tasks, {m.id}) : m \in old_milestones}
        kept_milestones == KeptMilestones(db_milestones, g.id)
        kept_tasks == db_tasks \ old_tasks
        phase_ranges == ComputePhaseDayRanges(ph, total)
        new_milestones == NewMilestones(kept_milestones, ph, phase_ranges, total, g.id)
        tasks == DailyTasksFor(ph, total, phase_ranges, phase_ranges, resp)
        new_tasks == NewTasks(kept_tasks, tasks, ph, phase_ranges, total, new_milestones,
                              current_user, today)
        approved == (db_roadmaps \ roadmap) \cup {[r EXCEPT !.approved = 1] : r \in roadmap}
    IN  /\ current_user # 0
        /\ IF roadmap = {} \/ goal = {}
           THEN /\ last' = Response("approve", rq, current_user, <<roadmap_id>>, 404, <<>>)
                /\ UNCHANGED <<db_roadmaps, db_milestones, db_tasks, db_audit>>
           ELSE IF ph = <<>>
           THEN /\ db_roadmaps' = approved
                /\ last' = Response("approve", rq, current_user, <<roadmap_id>>, 200, <<0>>)
                /\ UNCHANGED <<db_milestones, db_tasks, db_audit>>
           ELSE /\ \A m \in new_milestones : m.id <= MaxMilestoneId
                /\ \A t \in new_tasks : t.id <= MaxTaskId
                /\ IF \A k \in 1..Len(tasks) : DateInRange(DayNum(tasks[k]))
                   THEN /\ db_roadmaps' = approved
                        /\ db_audit' = db_audit \ AuditOfTasks(db_audit, {t.id : t \in old_tasks})
                        /\ db_milestones' = kept_milestones \cup new_milestones
                        /\ db_tasks' = kept_tasks \cup new_tasks
                        /\ last' = Response("approve", rq, current_user, <<roadmap_id>>, 200,
                                            <<Len(tasks), Len(ph)>>)
                   ELSE /\ last' = Response("approve", rq, current_user, <<roadmap_id>>,
                                            500, <<>>)
                        /\ UNCHANGED <<db_roadmaps, db_milestones, db_tasks, db_audit>>
        /\ UNCHANGED <<db_users, db_goals, cookies, signed_out>>
        /\ UNCHANGED <<db_logs, db_convs, today>>
        /\ UNCHANGED <<schedVars, fbVars, gen_calls>>

\* the requests are sent one after another, each after the response to the
\* one before was read
NextLife ==
    \/ /\ last = NoRequest
       /\ \E rq \in Browsers :
             \/ \E goal_id \in LifeGoalIds, result \in RoadmapResults :
                   GenerateRoadmap(rq, goal_id, result)
             \/ \E goal_id \in LifeGoalIds : GenerateRoadmapFails(rq, goal_id)
             \/ \E roadmap_id \in RoadmapIds, feedback \in Feedbacks,
                   result \in RoadmapResults :
                   RefineRoadmap(rq, roadmap_id, feedback, result)
             \/ \E roadmap_id \in RoadmapIds, resp \in LifeResponses :
                   ApproveRoadmap(rq, roadmap_id, resp)
             \/ \E goal_id \in LifeGoalIds : DeleteGoal(rq, goal_id)
             \/ \E goal_id \in LifeGoalIds : DeleteGoalFails(rq, goal_id)
    \/ ResponseRead

SpecLife == InitLife /\ [][NextLife]_vars

(***************************************************************************)
(* Properties of the allocator (Spec)                                      *)
(***************************************************************************)
DurationsOf(rngs) == [k \in 1..Len(rngs) |-> rngs[k].duration]

NPhases == Len(phases)

UnknownPhases == {k \in 1..Len(parsed) : parsed[k] = None}

AllocReturned == pc = "alloc_done" /\ NPhases >= 1

\* C1: for n >= 1 phases and total_days >= n the durations of the returned
\* ranges sum to exactly total_days and the last range ends on day total_days.
C1_SumIsTotalDays ==
    (AllocReturned /\ total_days >= NPhases)
        => /\ SumSeq(DurationsOf(ranges)) = total_days
           /\ ranges[Len(ranges)].end_day = total_days

\* C2: the returned ranges, one per phase, start at day 1, each range starts
\* the day after the previous one ends, and end_day = start_day + duration - 1.
C2_Contiguous ==
    AllocReturned
        => /\ Len(ranges) = NPhases
           /\ ranges[1].start_day = 1
           /\ \A k \in 1..(Len(ranges) - 1) :
                 ranges[k].end_day + 1 = ranges[k + 1].start_day
           /\ \A k \in 1..Len(ranges) :
                 ranges[k].end_day = ranges[k].start_day + ranges[k].duration - 1

\* a reachable return with a scaled, fixed allocation of several phases, one of
\* them with a parsed duration of 0
C2_Witness ==
    /\ AllocReturned
    /\ Len(ranges) = MaxPhases
    /\ \E k \in 1..Len(parsed) : parsed[k] = Some(0)
    /\ ranges[2].start_day > 1

\* C3: every returned range has duration >= 1, and after the scaling and after
\* every step of the round-robin fix no duration is below 1.
C3_MinDuration ==
    /\ pc = "alloc_done" => \A k \in 1..Len(ranges) : ranges[k].duration >= 1
    /\ pc = "alloc_fix" => \A k \in 1..Len(durations) : durations[k] >= 1

\* a fix step that took a day away under a budget smaller than the phase count
C3_Witness ==
    /\ pc = "alloc_fix"
    /\ fix_i >= 1
    /\ diff < 0
    /\ total_days < NPhases
    /\ \E k \in 1..Len(parsed) : parsed[k] = Some(0)

\* C4: compute_phase_day_ranges returns for every input, with one range per
\* phase (none for zero phases), the ranges summing to total_days and every
\* phase holding at least 1 day.
C4_StructurallyValid ==
    pc = "alloc_done"
        => /\ Len(ranges) = NPhases
           /\ NPhases >= 1 => SumSeq(DurationsOf(ranges)) = total_days
           /\ \A k \in 1..Len(ranges) : ranges[k].duration >= 1

\* C5: with no parseable timeline and total_days >= n, the first
\* (total_days mod n) phases get floor(total_days / n) + 1 days and the others
\* floor(total_days / n), so the durations differ by at most 1.
C5_EvenSplit ==
    (AllocReturned /\ UnknownPhases = 1..NPhases /\ total_days >= NPhases)
        => /\ \A k \in 1..NPhases :
                 ranges[k].duration =
                     (total_days \div NPhases)
                     + (IF k <= total_days % NPhases THEN 1 ELSE 0)
           /\ \A j, k \in 1..NPhases :
                 ranges[j].duration - ranges[k].duration <= 1

\* three unknown phases sharing 8 days as 3, 3, 2
C5_Witness ==
    /\ AllocReturned
    /\ UnknownPhases = 1..NPhases
    /\ NPhases = 3
    /\ total_days = 8
    /\ DurationsOf(ranges) = <<3, 3, 2>>

\* C6: in a mixed list the unknown phases get floor(leftover / count_unknown)
\* days each and the first (leftover mod count_unknown) of them, counted among
\* the unknown phases only, one day more, so that they sum to leftover, with
\* leftover = max(total_days - sum(known), count_unknown); known phases keep
\* their parsed duration at this stage.
C6_MixedSplit ==
    (pc = "alloc_split" /\ UnknownPhases # {} /\ UnknownPhases # 1..NPhases)
        => LET u == Cardinality(UnknownPhases)
               leftover == Max(total_days - KnownTotal(parsed), u)
               rank(k) == Cardinality({j \in UnknownPhases : j < k})
           IN  /\ \A k \in UnknownPhases :
                     durations[k] =
                         (leftover \div u) + (IF rank(k) < leftover % u THEN 1 ELSE 0)
               /\ \A k \in (1..NPhases) \ UnknownPhases : durations[k] = parsed[k][1]

\* C7: when the budget accommodates the parsed durations (all known and summing
\* to total_days, or total_days - sum(known) >= count_unknown > 0), every phase
\* with a parsed duration >= 1 gets exactly that duration in the returned
\* ranges and the unknown phases share exactly the remaining days.
C7_KnownFidelity ==
    LET u == Cardinality(UnknownPhases)
        known == KnownTotal(parsed)
        fits == \/ u = 0 /\ known = total_days
                \/ u > 0 /\ total_days - known >= u
    IN  (AllocReturned /\ fits)
            => /\ \A k \in (1..NPhases) \ UnknownPhases :
                     parsed[k][1] >= 1 => ranges[k].duration = parsed[k][1]
               /\ u > 0 =>
                     SumSeq([k \in 1..NPhases |->
                                IF k \in UnknownPhases THEN ranges[k].duration ELSE 0])
                         = total_days - known

(***************************************************************************)
(* Properties of the parser (SpecParse)                                    *)
(***************************************************************************)
PartsOf(ph, kind, unit) ==
    {k \in 1..Len(ph.parts) : ph.parts[k].kind = kind /\ ph.parts[k].unit = unit}

EndsWithSingle(ph, unit) ==
    /\ ph.parts # <<>>
    /\ ph.parts[Len(ph.parts)].kind = "single"
    /\ ph.parts[Len(ph.parts)].unit = unit

\* the day count the ordered pattern classes give a phrase, read off its parts
ExpectedDays(ph) ==
    LET first(S) == ph.parts[SetMin(S)]
        cw == PartsOf(ph, "count", "week")
        rw == PartsOf(ph, "range", "week")
        cm == PartsOf(ph, "count", "month")
        rm == PartsOf(ph, "range", "month")
        cd == PartsOf(ph, "count", "day")
    IN  IF cw # {} THEN Some(7 * first(cw).a)
        ELSE IF rw # {} THEN Some(7 * (first(rw).b - first(rw).a + 1))
        ELSE IF EndsWithSingle(ph, "week") THEN Some(7)
        ELSE IF cm # {} THEN Some(30 * first(cm).a)
        ELSE IF rm # {} THEN Some(30 * (first(rm).b - first(rm).a + 1))
        ELSE IF EndsWithSingle(ph, "month") THEN Some(30)
        ELSE IF cd # {} THEN Some(first(cd).a)
        ELSE None

\* C8: the parser returns the value of the first pattern class, in the order
\* count-week, week-range, trailing-week, count-month, month-range,
\* trailing-month, count-day, that the phrase matches, and unknown when it
\* matches none or is empty, whatever the letter case.
C8_ParserClasses ==
    pc = "parse_done" => parse_result = ExpectedDays(phrase)

\* "3 Days, Week 1-2": a day count written before a week range parses as the
\* week range
C8_Witness ==
    /\ pc = "parse_done"
    /\ Len(phrase.parts) = 2
    /\ phrase.parts[1] = [kind |-> "count", unit |-> "day", a |-> 3, b |-> 0]
    /\ phrase.parts[2] = [kind |-> "range", unit |-> "week", a |-> 1, b |-> 2]
    /\ phrase.style.caps
    /\ parse_result = Some(14)

(***************************************************************************)
(* Properties of the fallback distributor (SpecFallback)                   *)
(***************************************************************************)
TasksOfPhase(tasks, phase_idx) ==
    {k \in 1..Len(tasks) : tasks[k].phase_index = Some(phase_idx)}

\* C9: every phase with a non-empty task list gets exactly
\* max(2 * duration, len(tasks)) daily tasks, tagged with its index, each on a
\* day of the phase's range.
C9_FallbackCount ==
    pc = "fb_done"
        => \A p \in 1..NPhases :
              phases[p].tasks # <<>>
                  => LET mine == TasksOfPhase(daily_tasks, p - 1)
                     IN  /\ Cardinality(mine)
                               = Max(2 * ranges[p].duration, Len(phases[p].tasks))
                         /\ \A k \in mine :
                               /\ daily_tasks[k].day[1] >= ranges[p].start_day
                               /\ daily_tasks[k].day[1] <= ranges[p].end_day

\* a phase with one authored task and at least two days: the three framings do
\* not reach the target and "Continue: " tasks fill it
C9_Witness ==
    /\ pc = "fb_done"
    /\ \E p \in 1..NPhases :
          /\ Len(phases[p].tasks) = 1
          /\ ranges[p].duration >= 2
          /\ Cardinality(TasksOfPhase(daily_tasks, p - 1)) = 2 * ranges[p].duration
          /\ \E k \in TasksOfPhase(daily_tasks, p - 1) :
                daily_tasks[k].title[1] = "Continue: "

\* the daily tasks produced for the phase at position p, in their order
ProducedFor(p) == SelectSeq(daily_tasks, LAMBDA t : t.phase_index = Some(p - 1))

\* the phase at position p has authored tasks, fewer than target_count
IsExpanded(p) ==
    /\ phases[p].tasks # <<>>
    /\ Len(phases[p].tasks) < 2 * ranges[p].duration

FrameLabels == <<"Study: ", "Practice: ", "Review: ">>

IsUnexpanded(p) ==
    /\ phases[p].tasks # <<>>
    /\ Len(phases[p].tasks) >= 2 * ranges[p].duration

\* C22: for a phase with at least target_count authored tasks
\* (len(tasks) >= 2 * duration) the produced tasks are exactly the authored
\* tasks in their order with unmodified titles, and the task at index j has
\* priority max(5 - j, 1).
C22_FallbackUnexpanded ==
    pc = "fb_done"
        => \A p \in 1..NPhases :
              IsUnexpanded(p)
                  => LET authored == phases[p].tasks
                         produced == ProducedFor(p)
                     IN  /\ Len(produced) = Len(authored)
                         /\ \A k \in 1..Len(produced) :
                               /\ produced[k].title = <<"", authored[k]>>
                               /\ produced[k].description = authored[k]
                               /\ produced[k].priority
                                     = (IF 5 - (k - 1) >= 1 THEN 5 - (k - 1) ELSE 1)

\* a phase of six authored tasks on at most three days: the sixth task is
\* produced unframed with priority 1
C22_Witness ==
    /\ pc = "fb_done"
    /\ \E p \in 1..NPhases :
          /\ IsUnexpanded(p)
          /\ Len(ProducedFor(p)) = 6
          /\ ProducedFor(p)[6].title = <<"", 6>>
          /\ ProducedFor(p)[6].priority = 1
          /\ ProducedFor(p)[1].priority = 5

\* start_day + floor(j * duration / m) for the range rng
ComputedDay(rng, j, m) == rng.start_day + ((j * rng.duration) \div m)

\* C23: the task at position j of the m tasks produced for a phase gets the
\* day start_day + floor(j * duration / m) clamped into [start_day, end_day];
\* the days are non-decreasing in j, the first task falls on start_day, and
\* with duration = end_day - start_day + 1 the clamp changes nothing.
C23_FallbackDays ==
    pc = "fb_done"
        => \A p \in 1..NPhases :
              LET produced == ProducedFor(p)
                  m == Len(produced)
                  rng == ranges[p]
              IN  /\ \A k \in 1..m :
                        LET day == ComputedDay(rng, k - 1, m)
                        IN  /\ produced[k].day
                                  = Some(IF day < rng.start_day THEN rng.start_day
                                         ELSE IF day > rng.end_day THEN rng.end_day
                                         ELSE day)
                            /\ rng.duration = rng.end_day - rng.start_day + 1
                                  => produced[k].day = Some(day)
                  /\ \A k \in 1..(m - 1) : produced[k].day[1] <= produced[k + 1].day[1]
                  /\ m >= 1 => produced[1].day = Some(rng.start_day)

\* a second phase whose tasks start on its start_day, after day 1, and end on
\* a later day
C23_Witness ==
    /\ pc = "fb_done"
    /\ NPhases = 2
    /\ ranges[2].start_day > 1
    /\ ranges[2].duration >= 2
    /\ Len(ProducedFor(2)) >= 3
    /\ ProducedFor(2)[1].day = Some(ranges[2].start_day)
    /\ ProducedFor(2)[Len(ProducedFor(2))].day = Some(ranges[2].end_day)

\* how many of the tasks produced for the phase at position p fall on day d
TasksOnDay(p, d) ==
    Cardinality({k \in 1..Len(ProducedFor(p)) : ProducedFor(p)[k].day = Some(d)})

\* C24: for every phase with authored tasks every day of its range gets at
\* least 2 fallback tasks, and exactly 2 when the task list was expanded
\* (len(tasks) < 2 * duration).
C24_FallbackCoverage ==
    pc = "fb_done"
        => \A p \in 1..NPhases :
              phases[p].tasks # <<>>
                  => \A d \in ranges[p].start_day..ranges[p].end_day :
                        /\ TasksOnDay(p, d) >= 2
                        /\ IsExpanded(p) => TasksOnDay(p, d) = 2

\* an expanded phase of several days next to an unexpanded phase with a day
\* of three tasks
C24_Witness ==
    /\ pc = "fb_done"
    /\ \E p \in 1..NPhases :
          /\ IsExpanded(p)
          /\ ranges[p].duration >= 2
          /\ \A d \in ranges[p].start_day..ranges[p].end_day : TasksOnDay(p, d) = 2
    /\ \E p \in 1..NPhases :
          /\ IsUnexpanded(p)
          /\ \E d \in ranges[p].start_day..ranges[p].end_day : TasksOnDay(p, d) = 3

\* target_count of the phase the stepwise call is at
TargetCountHere ==
    TargetCount(phases[fb_phase_idx + 1].tasks,
                RangeOf(ranges, fb_phase_idx, total_days).duration)

\* a step from the head of the `for` loop at a phase without tasks goes to
\* the next phase and adds no task
SkipsEmptyPhase ==
    (/\ pc = "fbs_phase"
     /\ fb_phase_idx < Len(phases)
     /\ phases[fb_phase_idx + 1].tasks = <<>>)
        => /\ pc' = "fbs_phase"
           /\ fb_phase_idx' = fb_phase_idx + 1
           /\ UNCHANGED <<daily_tasks, fb_expanded, fb_idx>>

\* C25: every call of _fallback_distribute_tasks returns; the "Continue: "
\* loop makes at most 2 * target_count + 1 passes for a phase, and a phase
\* with an empty task list is skipped without a pass of any loop.
C25_FallbackTerminates ==
    /\ <>(pc = "fbs_done")
    /\ [](pc = "fbs_fill" => fb_idx <= 2 * TargetCountHere + 1)
    /\ [][SkipsEmptyPhase]_vars

\* the call returned after a phase without tasks was skipped and a phase was
\* filled with "Continue: " tasks
C25_Witness ==
    /\ pc = "fbs_done"
    /\ \E p \in 1..NPhases : phases[p].tasks = <<>>
    /\ \E k \in 1..Len(daily_tasks) : daily_tasks[k].title[1] = "Continue: "
    /\ fb_idx >= 1

(***************************************************************************)
(* Properties of the generator path (SpecGen)                              *)
(***************************************************************************)
GenReturnedList == pc = "gen_done" /\ response.kind = "list"

InRangeIndex(t) ==
    t.phase_index # None /\ t.phase_index[1] >= 0 /\ t.phase_index[1] < NPhases

\* C10: every returned item whose phase_index i lies in [0, n) has its day
\* clamped into the range of phase i: below the range it becomes start_day,
\* above it end_day, inside it stays, and a missing day becomes start_day.
C10_Clamp ==
    GenReturnedList
        => /\ Len(daily_tasks) = Len(response.items)
           /\ \A k \in 1..Len(response.items) :
                 LET t == response.items[k]
                 IN  InRangeIndex(t)
                         => LET s == ranges[t.phase_index[1] + 1].start_day
                                e == ranges[t.phase_index[1] + 1].end_day
                            IN  daily_tasks[k].day =
                                    IF t.day = None THEN Some(s)
                                    ELSE IF t.day[1] < s THEN Some(s)
                                    ELSE IF t.day[1] > e THEN Some(e)
                                    ELSE t.day

\* an item of a phase that is not the last, dated after that phase's range
C10_Witness ==
    /\ GenReturnedList
    /\ \E k \in 1..Len(response.items) :
          LET t == response.items[k]
          IN  /\ InRangeIndex(t)
              /\ t.phase_index[1] + 1 < NPhases
              /\ t.day # None
              /\ t.day[1] > ranges[t.phase_index[1] + 1].end_day
              /\ daily_tasks[k].day = Some(ranges[t.phase_index[1] + 1].end_day)

(***************************************************************************)
(* Properties of approve_roadmap (SpecApprove)                             *)
(***************************************************************************)
ApproveReturned == pc \in {"approve_done", "approve_failed"}

\* a phase_index that is present and outside [0, n)
OutOfRangeIndex(t) ==
    t.phase_index # None /\ (t.phase_index[1] < 0 \/ t.phase_index[1] >= NPhases)

LastEndDay == ranges[Len(ranges)].end_day

\* C11: a generator item whose phase_index is outside [0, n) never makes the
\* approval fail, and no Task row keeps the out-of-range index: every row is
\* linked to the milestone of a phase in [0, n).
C11_OutOfRangeIndex ==
    (/\ ApproveReturned
     /\ response.kind = "list"
     /\ \E k \in 1..Len(response.items) : OutOfRangeIndex(response.items[k]))
        => /\ last.status = 200
           /\ Len(created) <= Len(response.items)
           /\ \A k \in 1..Len(created) :
                 created[k].milestone >= 0 /\ created[k].milestone < NPhases

\* C12: every task the approval schedules, whatever the generator answered,
\* has a day within the computed ranges: 1 <= day <= end_day of the last
\* range.
C12_DaysWithinRanges ==
    pc = "approve_done"
        => \A k \in 1..Len(created) :
              created[k].day >= 1 /\ created[k].day <= LastEndDay

\* C13: when the generator call raises, the approval still completes with
\* status 200 and schedules exactly the fallback distribution computed from its
\* phase ranges.
C13_GeneratorFailure ==
    (ApproveReturned /\ response.kind = "raise")
        => /\ pc = "approve_done"
           /\ last.status = 200
           /\ daily_tasks = FallbackDistributeTasks(phases, total_days, ranges)
           /\ Len(created) = Len(daily_tasks)
           /\ \A k \in 1..Len(created) :
                 /\ Some(created[k].day) = daily_tasks[k].day
                 /\ Some(created[k].milestone) = daily_tasks[k].phase_index

\* the generator raised for two phases, one of them with a task, and the
\* fallback tasks were scheduled
C13_Witness ==
    /\ pc = "approve_done"
    /\ response.kind = "raise"
    /\ NPhases = 2
    /\ daily_tasks # <<>>
    /\ Len(created) = Len(daily_tasks)
    /\ last.status = 200

\* the answer has no usable task list
Unusable(resp) ==
    \/ resp.kind \in {"no_json", "no_daily_tasks", "not_records"}
    \/ resp.kind = "list" /\ resp.items = <<>>

\* C14: whenever the generator's answer has no usable task list (no JSON, no
\* daily_tasks entry, an empty daily_tasks or one that does not hold task
\* records), the schedule is exactly the fallback distribution of the phases
\* in phase order.
C14_UnusableFallsBack ==
    (ApproveReturned /\ Unusable(response))
        => daily_tasks = FallbackDistributeTasks(phases, total_days, ranges)

\* C15: when approve_roadmap has called the allocator, the phase list is not
\* empty and total_days >= n; with a deadline d days ahead total_days is
\* max(d, n), also for d < 0, and without a deadline it is 7 * n.
C15_TotalDayBudget ==
    pc = "approve_generate"
        => /\ NPhases >= 1
           /\ total_days >= NPhases
           /\ ranges = ComputePhaseDayRanges(phases, total_days)
           /\ deadline # None
                 => total_days = (IF deadline[1] >= NPhases THEN deadline[1]
                                  ELSE NPhases)
           /\ deadline = None => total_days = 7 * NPhases

\* a deadline that passed yesterday, two phases: the budget is the two phases
C15_Witness ==
    /\ pc = "approve_generate"
    /\ deadline = Some(0 - 1)
    /\ NPhases = 2
    /\ total_days = 2
    /\ Len(ranges) = 2

\* the generator call raised, or its answer has no task list of the expected
\* shape
FailedOrUnusable(resp) == resp.kind \in {"raise", "no_json", "no_daily_tasks", "not_records"}

Elems(seq) == {seq[k] : k \in 1..Len(seq)}

\* the goal and task lists and the stats of the latest response hold and
\* count the rows of the user the request was authenticated as, and no others
ScopedToUser ==
    /\ (last.op = "list_goals" /\ last.status = 200)
          => Elems(last.body) = {g.id : g \in {x \in db_goals : x.user_id = last.user}}
    /\ (last.op = "list_tasks" /\ last.status = 200)
          => Elems(last.body) = {t.id : t \in {x \in db_tasks : x.user_id = last.user}}
    /\ (last.op = "stats" /\ last.status = 200)
          => /\ last.body[1] = Cardinality({x \in db_goals : x.user_id = last.user})
             /\ last.body[3] = Cardinality({x \in db_tasks : x.user_id = last.user})
             /\ last.body[4]
                   = Cardinality({x \in db_tasks : x.user_id = last.user /\ x.status = 1})
             /\ last.body[5]
                   = Cardinality({x \in db_tasks :
                                     x.user_id = last.user /\ x.status = 0 - 1})

\* the step was a get, delete or update, by an authenticated user, of a row
\* that another user owns
OnForeignRow ==
    /\ last'.user # 0
    /\ \/ /\ last'.op \in {"get_goal", "delete_goal"}
          /\ \E g \in db_goals : g.id = last'.arg[1] /\ g.user_id # last'.user
       \/ /\ last'.op \in {"get_task", "update_task", "delete_task"}
          /\ \E t \in db_tasks : t.id = last'.arg[1] /\ t.user_id # last'.user

\* C16: after any requests by any users, the goal list, the task list and the
\* stats of user U hold and count only rows owned by U, and a get, delete or
\* update by U of a goal or task of another user answers 404 and changes no
\* row.
C16_Isolation ==
    [][/\ ScopedToUser'
       /\ OnForeignRow
             => /\ last'.status = 404
                /\ db_goals' = db_goals
                /\ db_tasks' = db_tasks]_vars

\* user 2, who owns a goal, tried to update or delete a task of user 1, got
\* 404, and the task is still there
C16_Witness ==
    /\ last.op \in {"update_task", "delete_task"}
    /\ last.user = 2
    /\ last.status = 404
    /\ \E t \in db_tasks : t.id = last.arg[1] /\ t.user_id = 1
    /\ \E g \in db_goals : g.user_id = 2

\* the request carried no cookie, a cookie whose signature is not the HMAC of
\* its payload, or a cookie naming a user that has no row or is inactive
NotASession(ck) ==
    \/ ck = None
    \/ ck # None /\ ck[1].sig # Hmac(SECRET_KEY, ck[1].payload)
    \/ /\ ck # None
       /\ ck[1].payload.uid # None
       /\ \/ ck[1].payload.uid[1] \notin 1..Len(db_users)
          \/ ~db_users[ck[1].payload.uid[1]].is_active

UniquePhones ==
    \A j \in 1..Len(db_users) :
        /\ Strip(db_users[j].phone) = db_users[j].phone
        /\ \A k \in 1..Len(db_users) : j # k => db_users[j].phone # db_users[k].phone

\* C18: after any logins at most one user row exists per stripped phone; the
\* first login with a phone adds the row and returns its id, every later
\* login with that phone adds nothing and returns the same id.
C18_LoginIdempotent ==
    [][/\ UniquePhones'
       /\ last'.op = "login"
             => LET phone == Strip(last'.arg)
                    known == {k \in 1..Len(db_users) : db_users[k].phone = phone}
                IN  IF known = {}
                    THEN /\ Len(db_users') = Len(db_users) + 1
                         /\ db_users'[Len(db_users')].phone = phone
                         /\ last'.body = <<Len(db_users')>>
                    ELSE /\ db_users' = db_users
                         /\ last'.body[1] \in known]_vars

\* the phone " 7" logged in after "7" had: one row, and both clients hold
\* the session of user 1
C18_Witness ==
    /\ last.op = "login"
    /\ last.arg = <<" ", "7">>
    /\ Len(db_users) = 1
    /\ db_users[1].phone = <<"7">>
    /\ last.body = <<1>>
    /\ \A c \in Clients : cookies[c] = Some(CreateSessionValue(1))

\* C19: a task is created with status 0 and without completed_date, and after
\* any creates and updates every task with status 1 has a completed_date.
C19_Completion ==
    /\ \A t \in db_tasks : t.status = 1 => t.completed
    /\ (last.op = "create_task" /\ last.status = 201)
          => \E t \in db_tasks : t.id = last.body[1] /\ t.status = 0 /\ ~t.completed

\* an update just set a task to status 1
C19_Witness ==
    /\ last.op = "update_task"
    /\ last.status = 200
    /\ Len(last.arg) = 2
    /\ last.arg[2] = 1
    /\ \E t \in db_tasks : t.id = last.arg[1] /\ t.status = 1 /\ t.completed

\* C20: a client that was logged in and logged out holds no session cookie,
\* and its requests to /auth/me are answered 401 until it logs in again.
C20_LogoutClears ==
    /\ \A c \in signed_out : cookies[c] = None
    /\ (last.op = "me" /\ last.client \in signed_out) => last.status = 401

\* a signed-out client asked /auth/me and got 401 while every user is active
C20_Witness ==
    /\ last.op = "me"
    /\ last.client \in signed_out
    /\ last.status = 401
    /\ Len(db_users) >= 1
    /\ \A k \in 1..Len(db_users) : db_users[k].is_active

(***************************************************************************)
(* Properties of GET /tasks/today (SpecToday)                              *)
(***************************************************************************)
\* the tasks of a user with status 0 and a scheduled_date before the day
DueBefore(tasks, user_id, day) ==
    {t \in tasks : /\ t.user_id = user_id
                   /\ t.status = 0
                   /\ t.scheduled_date # None
                   /\ t.scheduled_date[1] < day}

\* C28: after get_today_tasks ran for user U no task of U with status 0 is
\* scheduled before today: each such task was moved to today and got one
\* "rescheduled" audit entry; the tasks of U with status 1 or -1 and all
\* tasks of other users are as they were.
C28_OverdueRescheduled ==
    [][(last'.op = "today" /\ last'.status = 200)
          => LET moved == DueBefore(db_tasks, last'.user, today)
             IN  /\ DueBefore(db_tasks', last'.user, today) = {}
                 /\ \A t \in moved :
                       /\ [t EXCEPT !.scheduled_date = Some(today)] \in db_tasks'
                       /\ Cardinality({a \in db_audit' \ db_audit :
                                          /\ a.task_id = t.id
                                          /\ a.action = "rescheduled"}) = 1
                 /\ \A t \in db_tasks \ moved : t \in db_tasks'
                 /\ Cardinality(db_tasks') = Cardinality(db_tasks)
                 /\ db_audit \subseteq db_audit'
                 /\ Cardinality(db_audit' \ db_audit) = Cardinality(moved)]_vars

\* user 1 asked on the second day: a task was moved to that day for the
\* second time, and an overdue task of user 2 is where it was
C28_Witness ==
    /\ last.op = "today"
    /\ last.user = 1
    /\ today = FirstDay + 1
    /\ \E t \in db_tasks :
          /\ t.user_id = 1
          /\ t.scheduled_date = Some(today)
          /\ Cardinality({a \in db_audit : a.task_id = t.id}) = 2
    /\ \E t \in db_tasks :
          /\ t.user_id = 2
          /\ t.status = 0
          /\ t.scheduled_date = Some(FirstDay - 1)

(***************************************************************************)
(* Properties of the roadmap endpoints and delete_goal (SpecLife)          *)
(***************************************************************************)
\* the roadmap row a request to /roadmaps/{roadmap_id}/... named, as the
\* request found it
NamedRoadmap == CHOOSE r \in db_roadmaps : r.id = last'.arg[1]

\* this step is an approve_roadmap that succeeded on a roadmap with phases
ApproveSucceeds ==
    /\ last = NoRequest
    /\ last'.op = "approve"
    /\ last'.status = 200
    /\ NamedRoadmap.phases # None

\* the tasks linked to the milestones ms
LinkedTasks(tasks, ms) ==
    {t \in tasks : t.milestone_id # None /\ t.milestone_id[1] \in {m.id : m \in ms}}

FreshSchedule ==
    LET n == Len(NamedRoadmap.phases[1])
        ms == MilestonesOfGoal(db_milestones', NamedRoadmap.goal_id)
        ts == LinkedTasks(db_tasks', ms)
    IN  /\ n >= 1
        /\ Cardinality(ms) = n
        /\ \A i \in 0..(n - 1) :
              \E m \in ms : /\ m.order_index = i
                            /\ m.status = IF i = 0 THEN "in_progress" ELSE "pending"
        /\ Cardinality(ts) = last'.body[1]
        /\ \A t \in ts : t.status = 0 /\ t.priority \in 1..5

\* C27: when approve_roadmap succeeds on a roadmap of n >= 1 phases, the goal
\* has exactly n milestones afterwards, one per phase index, the first
\* "in_progress" and the others "pending"; the tasks linked to them are the
\* tasks the call created and no others, each with status 0 and a priority
\* in 1..5, whatever milestones and tasks the goal had before.
C27_FreshSchedule == [][ApproveSucceeds => FreshSchedule]_vars

\* goal 2, approved once before, was approved again with two phases: its one
\* earlier milestone, its completed task and the audit row are gone
C27_Witness ==
    /\ last.op = "approve"
    /\ last.status = 200
    /\ last.arg = <<1>>
    /\ Cardinality(MilestonesOfGoal(db_milestones, 2)) = 2
    /\ \A t \in db_tasks : t.status = 0
    /\ db_audit = {}

\* this step is a delete_goal answered with the given status
DeleteGoalAnswers(status) ==
    /\ last = NoRequest
    /\ last'.op = "delete_goal"
    /\ last'.status = status

\* the rows of a table a goal's deletion has to leave where they are
OthersRows(rows, goal_id) == {r \in rows : r.goal_id # goal_id}

GoalCascaded ==
    LET goal_id == last'.arg[1]
        ms == MilestonesOfGoal(db_milestones, goal_id)
        ts == LinkedTasks(db_tasks, ms)
    IN  /\ db_roadmaps' = OthersRows(db_roadmaps, goal_id)
        /\ db_milestones' = OthersRows(db_milestones, goal_id)
        /\ db_logs' = OthersRows(db_logs, goal_id)
        /\ db_convs' = OthersRows(db_convs, goal_id)
        /\ db_tasks' = db_tasks \ ts
        /\ db_audit' = {a \in db_audit : a.task_id \notin {t.id : t \in ts}}
        /\ db_goals' = {g \in db_goals : g.id # goal_id}

NothingRemoved ==
    UNCHANGED <<db_goals, db_roadmaps, db_milestones, db_tasks, db_audit, db_logs, db_convs>>

\* C29: when delete_goal succeeds for goal G, the roadmaps, milestones,
\* recalibration logs and conversation entries of G, the tasks linked to a
\* milestone of G and the audit rows of those tasks are removed together
\* with G, and every other row of these tables stays as it was; when the
\* deletion fails (500) or finds no goal (404), no row is removed.
C29_DeleteCascades ==
    [][/\ DeleteGoalAnswers(200) => GoalCascaded
       /\ DeleteGoalAnswers(500) => NothingRemoved
       /\ DeleteGoalAnswers(404) => NothingRemoved]_vars

\* goal 2 was deleted with its roadmap, milestone, tasks, audit row, log and
\* conversation, while goal 1 keeps its approved roadmap, milestone and tasks
C29_Witness ==
    /\ last.op = "delete_goal"
    /\ last.status = 200
    /\ last.arg = <<2>>
    /\ db_logs = {}
    /\ db_convs = {}
    /\ db_audit = {}
    /\ {g.id : g \in db_goals} = {1}
    /\ \E r \in db_roadmaps : r.goal_id = 1 /\ r.approved = 1
    /\ MilestonesOfGoal(db_milestones, 1) # {}
    /\ LinkedTasks(db_tasks, MilestonesOfGoal(db_milestones, 1)) = db_tasks
    /\ db_tasks # {}

\* this step is a generate_roadmap of the goal's owner, answered
GenerateAnswers ==
    /\ last = NoRequest
    /\ last'.op = "generate"
    /\ UserRow(db_goals, last'.arg[1], last'.user) # {}

OneRoadmapPerGoal ==
    \A r1, r2 \in db_roadmaps : r1.goal_id = r2.goal_id => r1 = r2

\* generate_roadmap on an approved roadmap: 400 and every table as before
ApprovedIsRefused ==
    (/\ GenerateAnswers
     /\ \E r \in RoadmapOfGoal(db_roadmaps, last'.arg[1]) : r.approved = 1)
        => /\ last'.status = 400
           /\ UNCHANGED <<db_goals, db_roadmaps, db_milestones, db_tasks, db_audit,
                          db_logs, db_convs>>

\* generate_roadmap on an unapproved roadmap: the row keeps its id, its goal
\* and approved = 0, no row is added and no other row is written
OverwrittenInPlace ==
    (/\ GenerateAnswers
     /\ last'.status = 200
     /\ RoadmapOfGoal(db_roadmaps, last'.arg[1]) # {})
        => \A r \in RoadmapOfGoal(db_roadmaps, last'.arg[1]) :
              /\ r.approved = 0
              /\ \E phases_json \in {PhasesJson(result) : result \in RoadmapResults} :
                    db_roadmaps' = (db_roadmaps \ {r})
                                       \cup {[r EXCEPT !.phases = phases_json]}
              /\ last'.body = <<r.id>>

\* a roadmap approved before the step is approved after it, if it still exists
ApprovedStays ==
    \A r \in db_roadmaps :
        r.approved = 1
            => \A r2 \in db_roadmaps' :
                  (r2.id = r.id /\ r2.goal_id = r.goal_id) => r2.approved = 1

\* C30: at every point of a sequence of generate_roadmap, refine_roadmap,
\* approve_roadmap and delete_goal calls a goal has at most one roadmap; a
\* generate_roadmap call of the goal's owner is answered 400 and changes no
\* table when the goal's roadmap is approved, and overwrites the row in place
\* when the goal has an unapproved roadmap; no call takes approved from 1
\* back to 0.
C30_RoadmapLifecycle ==
    /\ []OneRoadmapPerGoal
    /\ [][ApprovedIsRefused /\ OverwrittenInPlace /\ ApprovedStays]_vars

\* generate_roadmap was refused for goal 2, whose roadmap is approved and
\* was refined to two phases since, while the roadmap of goal 1 is not
\* approved and holds one phase
C30_Witness ==
    /\ last.op = "generate"
    /\ last.status = 400
    /\ last.arg = <<2>>
    /\ \E r \in db_roadmaps :
          r.goal_id = 2 /\ r.approved = 1 /\ r.phases = Some(LifePhases2)
    /\ \E r \in db_roadmaps :
          r.goal_id = 1 /\ r.approved = 0 /\ r.phases = Some(LifePhases1)
    /\ Cardinality(db_roadmaps) = 2

====
